---- MODULE Spec2Model ----
(***************************************************************************)
(* State-coordination layer of Discord-Duelist: the pipeline_watch retry   *)
(* wrapper (data_wrappers/utils.py), the GameStatus store                  *)
(* (data_wrappers/game_status.py) and the UserStatus store                 *)
(* (data_wrappers/user_status.py), modelled at the granularity of one      *)
(* Redis round trip per step.                                              *)
(*                                                                         *)
(* A stored JSON document is a sequence of length one holding the record,  *)
(* an absent key is the empty sequence.  Python's None inside a list of    *)
(* game ids is the id 0; real ids are positive.                            *)
(***************************************************************************)
EXTENDS Integers, Sequences, FiniteSets, TLC

\* ------------------------------------------------------------------ bounds
\* concurrent GameStatus.user_accepted calls (one coroutine each)
NumAccepters == 4
\* concurrent user_accepted calls that race with set_game_state
NumRetryCallers == 2
\* concurrent UserStatus.join_game / clear_game calls (one coroutine each)
NumCallers == 2
\* concurrent calls of GameStatus add / get / set_expiry / delete /
\* user_accepted (one coroutine each)
NumClients == 3
\* the longest time to live, in ticks of the store's clock
MaxTtl == 2

\* ------------------------------------------------------- program constants
\* pipeline_watch(max_retries: int = 5)
default_max_retries == 5
\* UserStatus.__max_active_games / __max_queued_games
max_active_games == 6
max_queued_games == 6
\* Python None as an element of moved_games (JSON.ARRPOP of an empty array)
None == 0

NoKey == <<>>
Doc(rec) == <<rec>>

GameProcs == 1..NumAccepters
UserProcs == 1..NumCallers
Procs == GameProcs \cup UserProcs \cup (1..NumRetryCallers) \cup (1..NumClients)

GameIds == {1}
UserIds == {1, 2}

\* --------------------------------------------------------- pure helpers
Range(s) == {s[k] : k \in DOMAIN s}

\* list.index(x): zero-based position of the first occurrence
Index(s, x) == (CHOOSE k \in 1..Len(s) : s[k] = x /\ \A j \in 1..(k - 1) : s[j] # x) - 1

\* JSON.ARRPOP key path index, index >= 0: an out-of-range index is rounded
\* to the end of the array, an empty array is left as it is
ArrPopAt(s, idx) ==
    IF Len(s) = 0 THEN s
    ELSE LET k == IF idx + 1 > Len(s) THEN Len(s) ELSE idx + 1
         IN  [j \in 1..(Len(s) - 1) |-> IF j < k THEN s[j] ELSE s[j + 1]]

\* JSON.ARRINSERT key path 0 value in place of JSON.ARRAPPEND
ArrAppend_AtFront(s, x) == <<x>> \o s

\* JSON.ARRAPPEND key path value
ArrAppend(s, x) == Append(s, x)

\* every decoration left with the default key_not_found_excepton
KeyNotFoundException_Default(fn) == "ValueError"

\* pipeline_watch(..., key_not_found_excepton=...) of each decoration
KeyNotFoundException(fn) ==
    CASE fn = "user_accepted" -> "GameNotFound"
      [] fn = "move_up_games" -> "UserNotFound"
      [] OTHER                -> "ValueError"

\* ------------------------------------------------------------ the state
VARIABLES
    games,         \* redis db 1: game id -> NoKey or Doc(Game)
    users,         \* redis db 2: user id -> NoKey or Doc(User)
    max_retries,   \* the nonlocal max_retries of each decorated function
    proc,          \* the coroutines: position, arguments, locals, outcome
    joined,        \* history: user id -> games join_game returned True for
                   \*          and no clear_game has removed since
    shadow,        \* redis db 1: game id -> NoKey or Doc(shadow key of the game)
    main_instance, \* os.getenv("MAIN_INSTANCE") == "True"
    imported,      \* import of data_wrappers.game_status: "no", "yes", "TypeError"
    loop,          \* the event loop of the process: "none" until it runs, then "main"
    notify,        \* redis config notify-keyspace-events holds "Ex"
    pubsub_callbacks,  \* RedisDb.__pubsub_callbacks: the registered <<pattern, fn>>
    pubsub_task,   \* RedisDb.__pubsub_task: None (0) or an index into pubsubs
    pubsubs,       \* the PubSub objects created so far, each with its run() task
    recreate,      \* the __recreate_pubsub_task coroutines on the main loop
    expire_callbacks,  \* GameStatus.__expire_callbacks: names in insertion order
    expired,       \* history: game id -> number of times its shadow key lapsed
    delivered,     \* history: game id -> expiry events sent to the live listener
    handled,       \* history: game id -> expiry events passed to __expire_handler
    invoked        \* history: <<callback, game id>> -> number of invocations

\* what the pipeline_watch model above and below never changes
dispatcherVars == <<main_instance, imported, loop, notify, pubsub_callbacks, pubsub_task,
                    pubsubs, recreate, expire_callbacks>>
historyVars == <<expired, delivered, handled, invoked>>
expiryVars == <<shadow, dispatcherVars, historyVars>>

vars == <<games, users, max_retries, proc, joined, expiryVars>>

EmptyUser == [active_games |-> <<>>, queued_games |-> <<>>, notifications |-> <<>>,
              notification_id |-> None]

\* a coroutine that is not inside any call
IdleProc ==
    [pc |-> "idle", op |-> "none", input |-> 0, fn |-> "none",
     game_id |-> 0, user_id |-> 0, user_ids |-> <<>>, i |-> 0,
     watching |-> FALSE, dirty |-> FALSE,
     user_status |-> EmptyUser, pending_users |-> <<>>,
     game_type |-> "", game_index |-> 0, notification_index |-> -1,
     deleted |-> FALSE, removed_notification |-> FALSE,
     moved_games |-> <<>>, moved_up_games |-> {}, notifications_removed_from |-> <<>>,
     exc |-> "", ret |-> FALSE, results |-> <<>>,
     runs |-> 0, conflicts |-> 0,
     \* history of a clear_game call: the users its __remove_game commits took
     \* the game from, the users whose notification those commits removed, the
     \* games its __move_up_games commits took out of a stored queue and put
     \* at the end of the stored active list
     removed_from |-> {}, cleared_from |-> <<>>, promoted |-> {},
     \* GameStatus calls: the Game passed in or returned, the timedelta passed
     \* in, and (history) how often the key's shadow had lapsed at the return
     game_status |-> <<>>, extend_time |-> 0, expired_seen |-> 0,
     \* (history) the user records as they were when the call began
     seen |-> <<>>,
     \* GameAdmin calls: the frames of the calls under way, innermost last,
     \* and (history) the calls made so far
     stack |-> <<>>, notes |-> <<>>]

\* the key a coroutine's pipeline is watching, with its redis db
WatchDb(pr) == IF pr.fn = "user_accepted" THEN 1 ELSE 2
WatchKey(pr) == IF pr.fn = "user_accepted" THEN pr.game_id ELSE pr.user_id

\* a write to key in db invalidates every WATCH on it
Touch(prs, db, key) ==
    [q \in Procs |->
        IF prs[q].watching /\ WatchDb(prs[q]) = db /\ WatchKey(prs[q]) = key
        THEN [prs[q] EXCEPT !.dirty = TRUE]
        ELSE prs[q]]

\* leaving "async with redis_pool.pipeline() as pipe": the pipeline is reset
Unwatch(pr) == [pr EXCEPT !.watching = FALSE, !.dirty = FALSE]

\* the call is over; locals are dropped, arguments and outcome stay
Finish(pr, exc, ret, results) ==
    [IdleProc EXCEPT !.pc = "done", !.op = pr.op, !.input = pr.input,
                     !.game_id = pr.game_id,
                     !.user_id = pr.user_id, !.user_ids = pr.user_ids,
                     !.moved_up_games = pr.moved_up_games,
                     !.notifications_removed_from = pr.notifications_removed_from,
                     !.deleted = pr.deleted,
                     !.exc = exc, !.ret = ret, !.results = results,
                     !.runs = pr.runs, !.conflicts = pr.conflicts,
                     !.removed_from = pr.removed_from, !.cleared_from = pr.cleared_from,
                     !.promoted = pr.promoted]

\* ----------------------------------------------- clear_game's batch loop
\* "for user in user_ids": the next __remove_game call, or the return
NextUser(pr) ==
    IF pr.i + 1 > Len(pr.user_ids)
    THEN Finish(pr, "", FALSE, <<>>)
    ELSE [Unwatch(pr) EXCEPT !.i = pr.i + 1, !.user_id = pr.user_ids[pr.i + 1],
                             !.fn = "remove_game", !.pc = "pw_exists",
                             !.user_status = EmptyUser, !.game_type = "",
                             !.game_index = 0, !.notification_index = -1,
                             !.deleted = FALSE, !.removed_notification = FALSE,
                             !.moved_games = <<>>]

\* __remove_game returned (user_moved_up_games, notification_removed);
\* has_moved is FALSE when user_moved_up_games is None
RemoveGameReturned(pr, has_moved, moved, notification_removed) ==
    NextUser([pr EXCEPT
        !.moved_up_games = IF has_moved THEN pr.moved_up_games \cup Range(moved)
                           ELSE pr.moved_up_games,
        !.notifications_removed_from =
            IF notification_removed THEN Append(pr.notifications_removed_from, pr.user_id)
            ELSE pr.notifications_removed_from])

\* ------------------------------------------------ pipeline_watch.wrapper
\* the retry loop of the decorated function fn goes round again
Retry(pr, fn) ==
    [Unwatch(pr) EXCEPT !.pc = "pw_exists", !.fn = fn]

\* an exception leaves the wrapper of fn and travels up the call chain:
\* move_up_games is awaited inside the body of remove_game, remove_game
\* inside the try of clear_game
RECURSIVE Raised(_, _, _)
Raised(pr, fn, exc) ==
    CASE fn = "move_up_games" ->
            IF exc = "WatchError"
            THEN Retry(pr, "remove_game")
            ELSE Raised(pr, "remove_game", exc)
      [] fn = "remove_game" ->
            IF exc \in {"GameNotFound", "UserNotFound"}
            THEN NextUser(pr)
            ELSE Finish(pr, exc, FALSE, <<>>)
      [] OTHER -> Finish(pr, exc, FALSE, <<>>)

\* the max_retries closure variables after that exception: a WatchError out
\* of move_up_games is caught by the except clause of remove_game's wrapper
RetriesAfterRaise(mr, fn, exc) ==
    IF fn = "move_up_games" /\ exc = "WatchError"
    THEN [mr EXCEPT !["remove_game"] = mr["remove_game"] - 1]
    ELSE mr

\* the calls whose body executions and conflicts are counted (history):
\* the decorated functions that are called directly, not nested
Counted(fn) == fn \in {"user_accepted", "join_game_existing_user"}

\* "except redis.WatchError: max_retries -= 1; continue" for fn's own commit
Conflict(pr, fn) ==
    [Retry(pr, fn) EXCEPT !.conflicts = IF Counted(fn) THEN pr.conflicts + 1 ELSE pr.conflicts]

\* "while await redis_pool.exists(watch_data)" ... else raise key_not_found
PwExists(p) ==
    /\ proc[p].pc = "pw_exists"
    /\ LET pr == proc[p] IN
       IF (IF WatchDb(pr) = 1 THEN games[WatchKey(pr)] # NoKey
           ELSE users[WatchKey(pr)] # NoKey)
       THEN /\ proc' = [proc EXCEPT ![p].pc = "pw_watch"]
            /\ max_retries' = max_retries
       ELSE /\ proc' = [proc EXCEPT ![p] = Raised(pr, pr.fn, KeyNotFoundException(pr.fn))]
            /\ max_retries' = RetriesAfterRaise(max_retries, pr.fn, KeyNotFoundException(pr.fn))
    /\ UNCHANGED <<games, users, joined>>
    /\ UNCHANGED expiryVars

\* "await pipe.watch(watch_data)", then the budget test: the body is
\* entered, or WatchError("Max retries reached") is raised
PwWatch(p) ==
    /\ proc[p].pc = "pw_watch"
    /\ LET pr == proc[p] IN
       IF max_retries[pr.fn] > -1
       THEN /\ proc' = [proc EXCEPT ![p].pc = "body", ![p].watching = TRUE,
                                    ![p].dirty = FALSE,
                                    ![p].runs = IF Counted(pr.fn) THEN pr.runs + 1 ELSE pr.runs]
            /\ max_retries' = max_retries
       ELSE /\ proc' = [proc EXCEPT ![p] = Raised(pr, pr.fn, "WatchError")]
            /\ max_retries' = RetriesAfterRaise(max_retries, pr.fn, "WatchError")
    /\ UNCHANGED <<games, users, joined>>
    /\ UNCHANGED expiryVars

\* ------------------------------------------------------------ GameStatus
\* the game of the acceptance scenario: user 9 invited users 1, 2, ...,
\* none of whom has accepted yet
InitialGame ==
    [state |-> 0, game_module_name |-> "Tic Tac Toe", starting_user |-> 9,
     all_users |-> <<9>> \o [k \in 1..NumAccepters |-> k],
     pending_users |-> [k \in 1..NumAccepters |-> k],
     usernames |-> [k \in 1..NumAccepters |-> "name"]]

\* the users a coroutine may accept for: the invitee it serves, or the
\* starting user, who is never pending
AcceptingUsers(p) ==
    {InitialGame.starting_user} \cup
    (IF p <= Len(InitialGame.pending_users) THEN {InitialGame.pending_users[p]} ELSE {})

\* a coroutine calls GameStatus.user_accepted(game_id, user_id)
CallUserAccepted(p, g, u) ==
    /\ proc[p].pc = "idle"
    /\ \A q \in GameProcs : q < p => proc[q].pc # "idle"
    /\ proc' = [proc EXCEPT ![p] = [IdleProc EXCEPT !.pc = "pw_exists", !.op = "user_accepted",
                                              !.fn = "user_accepted", !.game_id = g,
                                              !.user_id = u]]
    /\ UNCHANGED <<games, users, max_retries, joined>>
    /\ UNCHANGED expiryVars

\* body of user_accepted up to the commit: GameStatus.get, the membership
\* test, and the buffering of JSON.ARRPOP / JSON.GET after pipe.multi()
UserAcceptedGet(p) ==
    /\ proc[p].pc = "body"
    /\ proc[p].fn = "user_accepted"
    /\ LET pr == proc[p]
           g  == pr.game_id
       IN  proc' = [proc EXCEPT ![p] =
                IF games[g] = NoKey
                THEN Raised(pr, pr.fn, "GameNotFound")
                ELSE IF pr.user_id \in Range(games[g][1].pending_users)
                THEN [pr EXCEPT !.pc = "exec",
                                !.pending_users = games[g][1].pending_users,
                                !.game_index = Index(games[g][1].pending_users, pr.user_id)]
                ELSE Raised(pr, pr.fn, "UserNotFound")]
    /\ UNCHANGED <<games, users, max_retries, joined>>
    /\ UNCHANGED expiryVars

\* the pop of user_accepted with the index counted from one
UserAcceptedCommit_IndexFromOne(game, index) ==
    [game EXCEPT !.pending_users = ArrPopAt(game.pending_users, index + 1)]

\* the transaction of user_accepted as applied by the store
UserAcceptedCommit(game, index) ==
    [game EXCEPT !.pending_users = ArrPopAt(game.pending_users, index)]

\* the transaction with JSON.GET buffered before JSON.ARRPOP
UserAcceptedReply_GetBeforePop(old, new) == old.pending_users

\* "return results[1]": the reply of the JSON.GET of .pending_users, which
\* the transaction runs after the pop
UserAcceptedReply(old, new) == new.pending_users

\* "results = await pipe.execute()": EXEC fails when the watched key was
\* written since WATCH, otherwise both commands are applied atomically
UserAcceptedExec(p) ==
    /\ proc[p].pc = "exec"
    /\ proc[p].fn = "user_accepted"
    /\ LET pr == proc[p]
           g  == pr.game_id
       IN  IF pr.dirty
           THEN /\ proc' = [proc EXCEPT ![p] = Conflict(pr, pr.fn)]
                /\ max_retries' = [max_retries EXCEPT ![pr.fn] = @ - 1]
                /\ games' = games
           ELSE LET new == UserAcceptedCommit(games[g][1], pr.game_index)
                IN  /\ games' = [games EXCEPT ![g] = Doc(new)]
                    /\ proc' = [Touch(proc, 1, g) EXCEPT
                                    ![p] = Finish(pr, "", FALSE,
                                                  UserAcceptedReply(games[g][1], new))]
                    /\ max_retries' = max_retries
    /\ UNCHANGED <<users, joined>>
    /\ UNCHANGED expiryVars

\* GameStatus.set_game_state(game_id, state): JSON.SET game_id .state state;
\* a missing key makes redis answer with an error and nothing is written
set_game_state(g, state) ==
    /\ games[g] # NoKey
    /\ games' = [games EXCEPT ![g] = Doc([games[g][1] EXCEPT !.state = state])]
    /\ proc' = Touch(proc, 1, g)
    /\ UNCHANGED <<users, max_retries, joined>>
    /\ UNCHANGED expiryVars

InitProcs == [p \in Procs |-> IdleProc]
InitRetries ==
    [fn \in {"user_accepted", "join_game_existing_user", "remove_game", "move_up_games"}
        |-> default_max_retries]

\* the channel of key expiry in db 1, the channel patterns callbacks are
\* registered for, and the callback names in use
ExpiredChannel == "__keyevent@1__:expired"
Patterns == {ExpiredChannel, "test"}
CallbackNames == {"__game_expired", "shadowkey_callback"}


\* the keys of the dict __expire_callbacks
Names(callbacks) == {callbacks[k].name : k \in DOMAIN callbacks}

\* no history yet
NoHistory(ids) ==
    /\ expired = [g \in ids |-> 0]
    /\ delivered = [g \in ids |-> 0]
    /\ handled = [g \in ids |-> 0]
    /\ invoked = [c \in CallbackNames \X ids |-> 0]

\* a process that has not imported data_wrappers.game_status and whose
\* event loop is not running yet
NotImported ==
    /\ imported = "no"
    /\ loop = "none"
    /\ notify = FALSE
    /\ pubsub_callbacks = [c \in Patterns |-> ""]
    /\ pubsub_task = None
    /\ pubsubs = <<>>
    /\ recreate = <<>>
    /\ expire_callbacks = <<>>

\* the scenarios of pipeline_watch: the shadow keys have lapsed, the main
\* instance, nothing listening
NoExpiry ==
    /\ shadow = [g \in GameIds |-> NoKey]
    /\ main_instance = TRUE
    /\ NotImported
    /\ NoHistory(GameIds)

InitGame ==
    /\ games = [g \in GameIds |-> Doc(InitialGame)]
    /\ users = [u \in UserIds |-> NoKey]
    /\ max_retries = InitRetries
    /\ proc = InitProcs
    /\ joined = [u \in UserIds |-> {}]
    /\ NoExpiry

\* N concurrent acceptances of one game and nothing else
NextAccept ==
    \/ \E p \in GameProcs, g \in GameIds : \E u \in AcceptingUsers(p) : CallUserAccepted(p, g, u)
    \/ \E p \in GameProcs : PwExists(p)
    \/ \E p \in GameProcs : PwWatch(p)
    \/ \E p \in GameProcs : UserAcceptedGet(p)
    \/ \E p \in GameProcs : UserAcceptedExec(p)

SpecAccept == InitGame /\ [][NextAccept]_vars

\* the invitees who have not accepted yet accept concurrently: the game
\* of the acceptance scenario after the other invitees have accepted
NumLastAccepters == 3
LastProcs == 1..NumLastAccepters

InitLastAccepts ==
    /\ games = [g \in GameIds |->
                  Doc([InitialGame EXCEPT !.pending_users = [k \in LastProcs |-> k]])]
    /\ users = [u \in UserIds |-> NoKey]
    /\ max_retries = InitRetries
    /\ proc = InitProcs
    /\ joined = [u \in UserIds |-> {}]
    /\ NoExpiry

NextLastAccepts ==
    \/ \E p \in LastProcs, g \in GameIds : \E u \in AcceptingUsers(p) : CallUserAccepted(p, g, u)
    \/ \E p \in LastProcs : PwExists(p)
    \/ \E p \in LastProcs : PwWatch(p)
    \/ \E p \in LastProcs : UserAcceptedGet(p)
    \/ \E p \in LastProcs : UserAcceptedExec(p)

SpecLastAccepts == InitLastAccepts /\ [][NextLastAccepts]_vars

\* acceptances racing with another writer of the same game document
RetryProcs == 1..NumRetryCallers

NextRetry ==
    \/ \E p \in RetryProcs, g \in GameIds : \E u \in AcceptingUsers(p) : CallUserAccepted(p, g, u)
    \/ \E p \in RetryProcs : PwExists(p)
    \/ \E p \in RetryProcs : PwWatch(p)
    \/ \E p \in RetryProcs : UserAcceptedGet(p)
    \/ \E p \in RetryProcs : UserAcceptedExec(p)
    \/ \E g \in GameIds, state \in {1, 2} : set_game_state(g, state)

SpecRetry == InitGame /\ [][NextRetry]_vars

\* one acceptance on each of two games, while another writer keeps writing
\* the second game only
KeyProcs == {1, 2}

InitKeys ==
    /\ games = [g \in KeyProcs |-> Doc(InitialGame)]
    /\ users = [u \in UserIds |-> NoKey]
    /\ max_retries = InitRetries
    /\ proc = InitProcs
    /\ joined = [u \in UserIds |-> {}]
    /\ shadow = [g \in KeyProcs |-> NoKey]
    /\ main_instance = TRUE
    /\ NotImported
    /\ NoHistory(KeyProcs)

NextKeys ==
    \/ \E p \in KeyProcs : \E u \in AcceptingUsers(p) : CallUserAccepted(p, p, u)
    \/ \E p \in KeyProcs : PwExists(p)
    \/ \E p \in KeyProcs : PwWatch(p)
    \/ \E p \in KeyProcs : UserAcceptedGet(p)
    \/ \E p \in KeyProcs : UserAcceptedExec(p)
    \/ \E state \in {1, 2} : set_game_state(2, state)

SpecKeys == InitKeys /\ [][NextKeys]_vars

\* ------------------------------------------------------------ UserStatus
User(active, queued, notifications) ==
    [active_games |-> active, queued_games |-> queued, notifications |-> notifications,
     notification_id |-> None]

\* every game a user record holds, active first
HeldGames(user) == user.active_games \o user.queued_games

\* the records the store holds when the calls begin.  User 1: no record,
\* one active game with its notification, active games full with two games
\* queued, both lists full.  User 2: no record
UserSeeds(u) ==
    IF u = 1
    THEN {NoKey,
          Doc(User(<<1>>, <<>>, <<1>>)),
          Doc(User([k \in 1..max_active_games |-> k],
                   [k \in 1..2 |-> max_active_games + k], <<>>)),
          Doc(User([k \in 1..max_active_games |-> k],
                   [k \in 1..max_queued_games |-> max_active_games + k], <<>>))}
    ELSE {NoKey}

\* a game id no seed record holds
NewGame == max_active_games + max_queued_games + 1

\* the calls the coroutines choose from.  Coroutines are interchangeable, so
\* a coroutine starts after its predecessor and with an input not before
\* its predecessor's in this list
UserInputs ==
    << [op |-> "join_game", user_ids |-> <<1>>, game_id |-> 1],
       [op |-> "join_game", user_ids |-> <<1>>, game_id |-> NewGame],
       [op |-> "clear_game", user_ids |-> <<1>>, game_id |-> 1],
       [op |-> "clear_game", user_ids |-> <<1>>, game_id |-> 2],
       [op |-> "clear_game", user_ids |-> <<2, 1>>, game_id |-> 1] >>

InOrder(p, k) ==
    \A q \in UserProcs : q < p => proc[q].pc # "idle" /\ proc[q].input <= k

\* a coroutine calls UserStatus.join_game(user_id, game_id)
CallJoinGame(p, k) ==
    /\ proc[p].pc = "idle"
    /\ UserInputs[k].op = "join_game"
    /\ InOrder(p, k)
    /\ proc' = [proc EXCEPT ![p] = [IdleProc EXCEPT !.pc = "join_exists", !.op = "join_game",
                                              !.input = k,
                                              !.user_id = UserInputs[k].user_ids[1],
                                              !.game_id = UserInputs[k].game_id]]
    /\ UNCHANGED <<games, users, max_retries, joined>>
    /\ UNCHANGED expiryVars

\* "if await UserStatus.__pool.exists(str(user_id))"
JoinGameExists(p) ==
    /\ proc[p].pc = "join_exists"
    /\ proc' = [proc EXCEPT ![p] =
            IF users[proc[p].user_id] # NoKey
            THEN [proc[p] EXCEPT !.pc = "pw_exists", !.fn = "join_game_existing_user"]
            ELSE [proc[p] EXCEPT !.pc = "join_new"]]
    /\ UNCHANGED <<games, users, max_retries, joined>>
    /\ UNCHANGED expiryVars

\* __join_game_new_user: JSON.SET user_id . {...}, whatever the key holds,
\* then join_game returns True
JoinGameNewUser(p) ==
    /\ proc[p].pc = "join_new"
    /\ LET pr == proc[p] IN
       /\ users' = [users EXCEPT ![pr.user_id] = Doc(User(<<pr.game_id>>, <<>>, <<>>))]
       /\ proc' = [Touch(proc, 2, pr.user_id) EXCEPT ![p] = Finish(pr, "", TRUE, <<>>)]
       /\ joined' = [joined EXCEPT ![pr.user_id] = @ \cup {pr.game_id}]
    /\ UNCHANGED <<games, max_retries>>
    /\ UNCHANGED expiryVars

\* the capacity test of the queue written with > in place of >=
JoinTarget_QueueOffByOne(user, g) ==
    IF g \in Range(user.active_games) \/ g \in Range(user.queued_games) THEN ""
    ELSE IF Len(user.active_games) >= max_active_games
         THEN IF Len(user.queued_games) > max_queued_games THEN "full"
              ELSE "queued_games"
         ELSE "active_games"

\* the list __join_game_existing_user appends to: "" when the user already
\* holds the game, "full" when neither list has room
JoinTarget(user, g) ==
    IF g \in Range(user.active_games) \/ g \in Range(user.queued_games) THEN ""
    ELSE IF Len(user.active_games) >= max_active_games
         THEN IF Len(user.queued_games) >= max_queued_games THEN "full"
              ELSE "queued_games"
         ELSE "active_games"

\* body of __join_game_existing_user up to the commit: the read through the
\* watching pipeline and the decision
JoinGameExistingUserGet(p) ==
    /\ proc[p].pc = "body"
    /\ proc[p].fn = "join_game_existing_user"
    /\ LET pr == proc[p]
           u  == pr.user_id
           t  == JoinTarget(users[u][1], pr.game_id)
       IN  IF users[u] = NoKey
           THEN \* UserStatus.User(**None)
                /\ proc' = [proc EXCEPT ![p] = Raised(pr, pr.fn, "TypeError")]
                /\ joined' = joined
           ELSE IF t = ""
           THEN /\ proc' = [proc EXCEPT ![p] = Finish(pr, "", TRUE, <<>>)]
                /\ joined' = [joined EXCEPT ![u] = @ \cup {pr.game_id}]
           ELSE IF t = "full"
           THEN /\ proc' = [proc EXCEPT ![p] = Finish(pr, "", FALSE, <<>>)]
                /\ joined' = joined
           ELSE /\ proc' = [proc EXCEPT ![p].pc = "exec", ![p].game_type = t,
                                        ![p].user_status = users[u][1]]
                /\ joined' = joined
    /\ UNCHANGED <<games, users, max_retries>>
    /\ UNCHANGED expiryVars

\* "await pipe.execute()" of __join_game_existing_user
JoinGameExistingUserExec(p) ==
    /\ proc[p].pc = "exec"
    /\ proc[p].fn = "join_game_existing_user"
    /\ LET pr == proc[p]
           u  == pr.user_id
       IN  IF pr.dirty
           THEN /\ proc' = [proc EXCEPT ![p] = Conflict(pr, pr.fn)]
                /\ max_retries' = [max_retries EXCEPT ![pr.fn] = @ - 1]
                /\ UNCHANGED <<users, joined>>
           ELSE /\ users' = [users EXCEPT ![u] =
                        Doc([users[u][1] EXCEPT ![pr.game_type] = ArrAppend(@, pr.game_id)])]
                /\ proc' = [Touch(proc, 2, u) EXCEPT ![p] = Finish(pr, "", TRUE, <<>>)]
                /\ joined' = [joined EXCEPT ![u] = @ \cup {pr.game_id}]
                /\ max_retries' = max_retries
    /\ games' = games
    /\ UNCHANGED expiryVars

\* a coroutine calls UserStatus.clear_game(user_ids, game_id)
CallClearGame(p, k) ==
    /\ proc[p].pc = "idle"
    /\ UserInputs[k].op = "clear_game"
    /\ InOrder(p, k)
    /\ proc' = [proc EXCEPT ![p] = NextUser([IdleProc EXCEPT !.op = "clear_game",
                                                       !.input = k,
                                                       !.user_ids = UserInputs[k].user_ids,
                                                       !.game_id = UserInputs[k].game_id])]
    /\ UNCHANGED <<games, users, max_retries, joined>>
    /\ UNCHANGED expiryVars

\* body of __remove_game up to pipe.multi(): UserStatus.get and the search
RemoveGameGet(p) ==
    /\ proc[p].pc = "body"
    /\ proc[p].fn = "remove_game"
    /\ LET pr == proc[p]
           u  == pr.user_id
           g  == pr.game_id
           st == users[u][1]
       IN  proc' = [proc EXCEPT ![p] =
                IF users[u] = NoKey
                THEN Raised(pr, pr.fn, "UserNotFound")
                ELSE IF g \notin Range(st.active_games) /\ g \notin Range(st.queued_games)
                THEN Raised(pr, pr.fn, "GameNotFound")
                ELSE [pr EXCEPT
                        !.pc = "exec",
                        !.user_status = st,
                        !.game_type = IF g \in Range(st.active_games)
                                      THEN "active_games" ELSE "queued_games",
                        !.game_index = IF g \in Range(st.active_games)
                                       THEN Index(st.active_games, g)
                                       ELSE Index(st.queued_games, g),
                        !.notification_index = IF g \in Range(st.notifications)
                                               THEN Index(st.notifications, g) ELSE -1]]
    /\ UNCHANGED <<games, users, max_retries, joined>>
    /\ UNCHANGED expiryVars

\* the deletion test written as if the data were read after the removal
CanDeleteUser_AfterRemoval(user_status) ==
    Len(user_status.active_games) + Len(user_status.queued_games) = 0

\* "Checks if user can be deleted", on the data read before the removal
CanDeleteUser(user_status) ==
    Len(user_status.active_games) + Len(user_status.queued_games) = 1

\* the transaction of __remove_game as applied by the store to document doc
RemoveGameCommit(doc, pr) ==
    LET popped == [doc[1] EXCEPT ![pr.game_type] = ArrPopAt(@, pr.game_index)]
        cleared == IF pr.notification_index >= 0
                   THEN [popped EXCEPT !.notifications = ArrPopAt(@, pr.notification_index)]
                   ELSE popped
    IN  IF CanDeleteUser(pr.user_status) THEN NoKey ELSE Doc(cleared)

\* "await pipe.execute()" of __remove_game and what follows it
RemoveGameExec(p) ==
    /\ proc[p].pc = "exec"
    /\ proc[p].fn = "remove_game"
    /\ LET pr == proc[p]
           u  == pr.user_id
       IN  IF pr.dirty
           THEN /\ proc' = [proc EXCEPT ![p] = Conflict(pr, pr.fn)]
                /\ max_retries' = [max_retries EXCEPT ![pr.fn] = @ - 1]
                /\ UNCHANGED <<users, joined>>
           ELSE LET new == RemoveGameCommit(users[u], pr)
                    removed_notification == pr.notification_index >= 0
                    hist == [pr EXCEPT
                               !.removed_from = @ \cup {u},
                               !.cleared_from =
                                   IF /\ pr.game_id \in Range(users[u][1].notifications)
                                      /\ \/ new = NoKey
                                         \/ Len(new[1].notifications) <
                                                Len(users[u][1].notifications)
                                   THEN Append(@, u) ELSE @]
                IN  /\ users' = [users EXCEPT ![u] = new]
                    /\ joined' = [joined EXCEPT ![u] = @ \ {pr.game_id}]
                    /\ max_retries' = max_retries
                    /\ proc' = [Touch(proc, 2, u) EXCEPT ![p] =
                            IF CanDeleteUser(pr.user_status)
                            THEN RemoveGameReturned([hist EXCEPT !.deleted = TRUE],
                                                    FALSE, <<>>, removed_notification)
                            ELSE [Unwatch(hist) EXCEPT
                                    !.pc = "pw_exists", !.fn = "move_up_games",
                                    !.removed_notification = removed_notification]]
    /\ games' = games
    /\ UNCHANGED expiryVars

\* the loop test of __move_up_games on the local copy
CanMoveUp(user_status) ==
    /\ Len(user_status.active_games) < max_active_games
    /\ Len(user_status.queued_games) > 0

\* body of __move_up_games up to the first commit: UserStatus.get and the
\* first loop test
MoveUpGamesGet(p) ==
    /\ proc[p].pc = "body"
    /\ proc[p].fn = "move_up_games"
    /\ LET pr == proc[p]
           u  == pr.user_id
       IN  proc' = [proc EXCEPT ![p] =
                IF users[u] = NoKey
                THEN Raised(pr, pr.fn, "UserNotFound")
                ELSE IF CanMoveUp(users[u][1])
                THEN [pr EXCEPT !.pc = "exec", !.user_status = users[u][1],
                                !.moved_games = <<>>]
                ELSE RemoveGameReturned(pr, TRUE, <<>>, pr.removed_notification)]
    /\ max_retries' = max_retries
    /\ UNCHANGED <<games, users, joined>>
    /\ UNCHANGED expiryVars

\* one transaction of __move_up_games as applied by the store: the head of
\* the stored queue is popped, the head of the local copy is appended
MoveUpCommit(user, user_status) ==
    [user EXCEPT !.queued_games = ArrPopAt(@, 0),
                 !.active_games = ArrAppend(@, user_status.queued_games[1])]

\* "moved_games.append((await pipe.execute())[0])", the update of the local
\* copy and the next loop test.  execute() resets the pipeline, so only the
\* first transaction of a body run is guarded by the WATCH
MoveUpGamesExec(p) ==
    /\ proc[p].pc = "exec"
    /\ proc[p].fn = "move_up_games"
    /\ LET pr == proc[p]
           u  == pr.user_id
       IN  IF pr.watching /\ pr.dirty
           THEN /\ proc' = [proc EXCEPT ![p] = Conflict(pr, pr.fn)]
                /\ max_retries' = [max_retries EXCEPT ![pr.fn] = @ - 1]
                /\ users' = users
           ELSE IF users[u] = NoKey
           THEN \* redis answers the JSON commands with an error
                /\ proc' = [proc EXCEPT ![p] = Raised(pr, pr.fn, "ResponseError")]
                /\ max_retries' = max_retries
                /\ users' = users
           ELSE LET local == [pr.user_status EXCEPT
                                !.active_games = Append(@, Head(pr.user_status.queued_games)),
                                !.queued_games = Tail(@)]
                    \* reply of JSON.ARRPOP at 0: the popped element, null
                    \* for an empty array
                    stored_queue == users[u][1].queued_games
                    moved == Append(pr.moved_games,
                                    IF Len(stored_queue) = 0 THEN None
                                    ELSE stored_queue[1])
                    hist == [pr EXCEPT !.promoted =
                               IF /\ Len(users[u][1].queued_games) > 0
                                  /\ Head(users[u][1].queued_games) = Head(pr.user_status.queued_games)
                               THEN @ \cup {Head(users[u][1].queued_games)} ELSE @]
                IN  /\ users' = [users EXCEPT ![u] = Doc(MoveUpCommit(users[u][1], pr.user_status))]
                    /\ max_retries' = max_retries
                    /\ proc' = [Touch(proc, 2, u) EXCEPT ![p] =
                            IF CanMoveUp(local)
                            THEN [Unwatch(hist) EXCEPT !.user_status = local,
                                                       !.moved_games = moved]
                            ELSE RemoveGameReturned(hist, TRUE, moved, pr.removed_notification)]
    /\ UNCHANGED <<games, joined>>
    /\ UNCHANGED expiryVars

InitUser ==
    /\ games = [g \in GameIds |-> NoKey]
    /\ users \in {f \in [UserIds -> UNION {UserSeeds(u) : u \in UserIds}] :
                    \A u \in UserIds : f[u] \in UserSeeds(u)}
    /\ max_retries = InitRetries
    /\ proc = InitProcs
    /\ joined = [u \in UserIds |-> {}]
    /\ NoExpiry

NextUserStatus ==
    \/ \E p \in UserProcs, k \in DOMAIN UserInputs : CallJoinGame(p, k)
    \/ \E p \in UserProcs : JoinGameExists(p)
    \/ \E p \in UserProcs : JoinGameNewUser(p)
    \/ \E p \in UserProcs, k \in DOMAIN UserInputs : CallClearGame(p, k)
    \/ \E p \in UserProcs : PwExists(p)
    \/ \E p \in UserProcs : PwWatch(p)
    \/ \E p \in UserProcs : JoinGameExistingUserGet(p)
    \/ \E p \in UserProcs : JoinGameExistingUserExec(p)
    \/ \E p \in UserProcs : RemoveGameGet(p)
    \/ \E p \in UserProcs : RemoveGameExec(p)
    \/ \E p \in UserProcs : MoveUpGamesGet(p)
    \/ \E p \in UserProcs : MoveUpGamesExec(p)

SpecUser == InitUser /\ [][NextUserStatus]_vars

\* UserStatus.set_notification_id(user_id, message_id):
\* JSON.SET user_id .notification_id message_id; a missing key makes redis
\* answer with an error and nothing is written
set_notification_id(u, message_id) ==
    /\ users[u] # NoKey
    /\ users' = [users EXCEPT ![u] = Doc([users[u][1] EXCEPT !.notification_id = message_id])]
    /\ proc' = Touch(proc, 2, u)
    /\ UNCHANGED <<games, max_retries, joined>>
    /\ UNCHANGED expiryVars


\* one clear_game call racing with another writer of the same user record
ClearProcs == {1}

NextClear ==
    \/ \E p \in ClearProcs, k \in DOMAIN UserInputs : CallClearGame(p, k)
    \/ \E p \in ClearProcs : PwExists(p)
    \/ \E p \in ClearProcs : PwWatch(p)
    \/ \E p \in ClearProcs : RemoveGameGet(p)
    \/ \E p \in ClearProcs : RemoveGameExec(p)
    \/ \E p \in ClearProcs : MoveUpGamesGet(p)
    \/ \E p \in ClearProcs : MoveUpGamesExec(p)
    \/ \E u \in UserIds, m \in {1} : set_notification_id(u, m)

SpecClear == InitUser /\ [][NextClear]_vars

\* ------------------------- UserStatus: readiness and notifications
\* the calls of check_users_are_ready, add_notifiction and
\* remove_notification the coroutines choose from, after those of UserInputs
NotifyInputs ==
    << [op |-> "check_users_are_ready", user_ids |-> <<1, 2>>, game_id |-> 1],
       [op |-> "check_users_are_ready", user_ids |-> <<2, 1>>, game_id |-> NewGame],
       [op |-> "add_notifiction", user_ids |-> <<1>>, game_id |-> 1],
       [op |-> "remove_notification", user_ids |-> <<1>>, game_id |-> 1] >>

\* a coroutine calls one of them
CallNotify(p, k) ==
    /\ proc[p].pc = "idle"
    /\ InOrder(p, Len(UserInputs) + k)
    /\ proc' = [proc EXCEPT ![p] =
                   [IdleProc EXCEPT !.pc = NotifyInputs[k].op, !.op = NotifyInputs[k].op,
                                    !.input = Len(UserInputs) + k,
                                    !.user_ids = NotifyInputs[k].user_ids,
                                    !.user_id = NotifyInputs[k].user_ids[1],
                                    !.game_id = NotifyInputs[k].game_id,
                                    !.i = 1,
                                    !.seen = users]]
    /\ UNCHANGED <<games, users, max_retries, joined>>
    /\ UNCHANGED expiryVars

\* one turn of "for user_id in user_ids" in check_users_are_ready:
\* UserStatus.get, then False at the first user whose active_games lack
\* the game, UserNotFound at the first user without a record, True after
\* the last user
CheckUsersAreReadyGet(p) ==
    /\ proc[p].pc = "check_users_are_ready"
    /\ LET pr == proc[p]
           user_id == pr.user_ids[pr.i]
       IN  proc' = [proc EXCEPT ![p] =
               IF users[user_id] # NoKey
               THEN IF pr.game_id \notin Range(users[user_id][1].active_games)
                    THEN Finish(pr, "", FALSE, <<>>)
                    ELSE IF pr.i = Len(pr.user_ids)
                         THEN Finish(pr, "", TRUE, <<>>)
                         ELSE [pr EXCEPT !.i = pr.i + 1, !.user_id = pr.user_ids[pr.i + 1]]
               ELSE Finish(pr, "UserNotFound", FALSE, <<>>)]
    /\ UNCHANGED <<games, users, max_retries, joined>>
    /\ UNCHANGED expiryVars

\* "UserStatus.__pool.json().arrappend(...)" and "....arrpop(...)" as
\* statements of their own: execute_command of the asyncio client returns a
\* coroutine object, which is dropped without being awaited, and no command
\* is sent
NotAwaited(store, written) == store

\* add_notifiction: UserStatus.get, UserNotFound without a record, and
\* JSON.ARRAPPEND .notifications when the game is not among them
AddNotifiction(p) ==
    /\ proc[p].pc = "add_notifiction"
    /\ LET pr == proc[p]
           u  == pr.user_id
       IN  IF users[u] = NoKey
           THEN /\ proc' = [proc EXCEPT ![p] = Finish(pr, "UserNotFound", FALSE, <<>>)]
                /\ users' = users
           ELSE /\ users' =
                     IF pr.game_id \notin Range(users[u][1].notifications)
                     THEN NotAwaited(users,
                              [users EXCEPT ![u] = Doc([users[u][1] EXCEPT
                                  !.notifications = ArrAppend(@, pr.game_id)])])
                     ELSE users
                /\ proc' = [(IF users' = users THEN proc ELSE Touch(proc, 2, u))
                               EXCEPT ![p] = Finish(pr, "", FALSE, <<>>)]
    /\ UNCHANGED <<games, max_retries, joined>>
    /\ UNCHANGED expiryVars

\* remove_notification: UserStatus.get, UserNotFound without a record,
\* JSON.ARRPOP .notifications at the index of the game when it is among
\* them, and whether it was
RemoveNotification(p) ==
    /\ proc[p].pc = "remove_notification"
    /\ LET pr == proc[p]
           u  == pr.user_id
       IN  IF users[u] = NoKey
           THEN /\ proc' = [proc EXCEPT ![p] = Finish(pr, "UserNotFound", FALSE, <<>>)]
                /\ users' = users
           ELSE LET removed == pr.game_id \in Range(users[u][1].notifications) IN
                /\ users' =
                     IF removed
                     THEN NotAwaited(users,
                              [users EXCEPT ![u] = Doc([users[u][1] EXCEPT
                                  !.notifications =
                                      ArrPopAt(@, Index(users[u][1].notifications,
                                                        pr.game_id))])])
                     ELSE users
                /\ proc' = [(IF users' = users THEN proc ELSE Touch(proc, 2, u))
                               EXCEPT ![p] = Finish(pr, "", removed, <<>>)]
    /\ UNCHANGED <<games, max_retries, joined>>
    /\ UNCHANGED expiryVars

\* the records of UserSeeds, and user 2 without a record or with game 1
\* active
InitNotify ==
    /\ games = [g \in GameIds |-> NoKey]
    /\ users \in {f \in [UserIds -> UserSeeds(1) \cup {Doc(User(<<1>>, <<>>, <<>>))}] :
                    f[1] \in UserSeeds(1) /\ f[2] \in {NoKey, Doc(User(<<1>>, <<>>, <<>>))}}
    /\ max_retries = InitRetries
    /\ proc = InitProcs
    /\ joined = [u \in UserIds |-> {}]
    /\ NoExpiry

NextNotify ==
    \/ \E p \in UserProcs, k \in DOMAIN NotifyInputs : CallNotify(p, k)
    \/ \E p \in UserProcs : CheckUsersAreReadyGet(p)
    \/ \E p \in UserProcs : AddNotifiction(p)
    \/ \E p \in UserProcs : RemoveNotification(p)
    \/ \E p \in UserProcs, k \in DOMAIN UserInputs : CallJoinGame(p, k)
    \/ \E p \in UserProcs : JoinGameExists(p)
    \/ \E p \in UserProcs : JoinGameNewUser(p)
    \/ \E p \in UserProcs : PwExists(p)
    \/ \E p \in UserProcs : PwWatch(p)
    \/ \E p \in UserProcs : JoinGameExistingUserGet(p)
    \/ \E p \in UserProcs : JoinGameExistingUserExec(p)
    \/ \E u \in UserIds, m \in {1} : set_notification_id(u, m)

SpecNotify == InitNotify /\ [][NextNotify]_vars

\* ------------------------------- GameStatus: documents and shadow keys
GameClients == 1..NumClients

\* the ids GameStatus.__create_game_id draws from
StoreIds == {1, 2}

\* GameStatus.__get_shadow_key: f"shadowKey:{game_id}", as the parts that
\* str.split(":") gives
get_shadow_key(game_id) == <<"shadowKey", game_id>>

\* the fields of the Game dataclass
GameFields == {"state", "game_module_name", "starting_user", "all_users",
               "pending_users", "usernames"}

\* a conversion that loses the invitations
asdict_WithoutPending(game_status) ==
    [f \in DOMAIN game_status |-> IF f = "pending_users" THEN <<>> ELSE game_status[f]]

\* dataclasses.asdict(game_status), which JSON.SET stores
asdict(game_status) == [f \in DOMAIN game_status |-> game_status[f]]

\* GameStatus.Game(**game_state): every field by keyword, nothing else
GameFromState(game_state) == [f \in GameFields |-> game_state[f]]

\* SET key value: the key holds the value and has no time to live
RedisSet(value) == Doc([value |-> value, ttl |-> None])

\* a missing key created with the time to live
RedisExpire_CreatesKey(key, seconds) ==
    IF seconds <= 0 THEN NoKey
    ELSE IF key = NoKey THEN Doc([value |-> -1, ttl |-> seconds])
    ELSE Doc([key[1] EXCEPT !.ttl = seconds])

\* EXPIRE key seconds: nothing for a missing key, a time that is not
\* positive deletes the key
RedisExpire(key, seconds) ==
    IF key = NoKey THEN NoKey
    ELSE IF seconds > 0 THEN Doc([key[1] EXCEPT !.ttl = seconds])
    ELSE NoKey

\* PERSIST key
RedisPersist(key) ==
    IF key = NoKey THEN NoKey ELSE Doc([key[1] EXCEPT !.ttl = None])

\* the game in the store when the calls begin, and the game add is called
\* with: user 9 invited users 1 and 2, or user 1 only
SeedGame ==
    [state |-> 0, game_module_name |-> "Tic Tac Toe", starting_user |-> 9,
     all_users |-> <<9, 1, 2>>, pending_users |-> <<1, 2>>,
     usernames |-> [k \in {"1", "2"} |-> "name"]]

AddedGame ==
    [state |-> 0, game_module_name |-> "Tic Tac Toe", starting_user |-> 9,
     all_users |-> <<9, 1>>, pending_users |-> <<1>>,
     usernames |-> [k \in {"1"} |-> "name"]]

\* the calls the coroutines choose from, ordered as UserInputs is
GameInputs ==
    << [op |-> "add", game_id |-> 0, user_id |-> 0, extend_time |-> MaxTtl],
       [op |-> "get", game_id |-> 1, user_id |-> 0, extend_time |-> 0],
       [op |-> "set_expiry", game_id |-> 1, user_id |-> 0, extend_time |-> MaxTtl],
       [op |-> "set_expiry", game_id |-> 1, user_id |-> 0, extend_time |-> None],
       [op |-> "delete", game_id |-> 1, user_id |-> 0, extend_time |-> 0],
       [op |-> "user_accepted", game_id |-> 1, user_id |-> 1, extend_time |-> 0],
       [op |-> "user_accepted", game_id |-> 1, user_id |-> 9, extend_time |-> 0] >>

\* a coroutine calls one of the GameStatus operations
CallGameStatus(p, k) ==
    /\ proc[p].pc = "idle"
    /\ \A q \in GameClients : q < p => proc[q].pc # "idle" /\ proc[q].input <= k
    /\ proc' = [proc EXCEPT ![p] =
            [IdleProc EXCEPT !.pc = CASE GameInputs[k].op = "add"           -> "add_set"
                                      [] GameInputs[k].op = "get"           -> "get"
                                      [] GameInputs[k].op = "set_expiry"    -> "se_exists"
                                      [] GameInputs[k].op = "delete"        -> "del_game"
                                      [] GameInputs[k].op = "user_accepted" -> "pw_exists",
                             !.op = GameInputs[k].op,
                             !.input = k,
                             !.fn = IF GameInputs[k].op = "user_accepted"
                                    THEN "user_accepted" ELSE "none",
                             !.game_id = GameInputs[k].game_id,
                             !.user_id = GameInputs[k].user_id,
                             !.extend_time = GameInputs[k].extend_time,
                             !.game_status = IF GameInputs[k].op = "add"
                                             THEN AddedGame ELSE <<>>]]
    /\ UNCHANGED <<games, users, max_retries, joined, expiryVars>>

\* a GameStatus call that is not wrapped returns or raises
Returned(pr, exc, game_status) ==
    [Finish(pr, exc, FALSE, <<>>) EXCEPT !.game_status = game_status,
                                         !.extend_time = pr.extend_time,
                                         !.expired_seen = expired[pr.game_id]]

\* add: "new_game_id = GameStatus.__create_game_id()", sixteen random
\* letters and digits, taken here never to repeat an id the store still
\* holds or a call in flight was given, and
\* "await pool.json().set(new_game_id, ".", asdict(game_status))"
AddSet(p) ==
    /\ proc[p].pc = "add_set"
    /\ \E new_game_id \in DOMAIN games :
          /\ games[new_game_id] = NoKey
          /\ shadow[new_game_id] = NoKey
          /\ \A q \in GameClients :
                 proc[q].pc \in {"idle", "done"} \/ proc[q].game_id # new_game_id
          /\ games' = [games EXCEPT ![new_game_id] = Doc(asdict(proc[p].game_status))]
          /\ proc' = [Touch(proc, 1, new_game_id) EXCEPT
                          ![p] = [proc[p] EXCEPT !.pc = "add_shadow",
                                                 !.game_id = new_game_id]]
    /\ UNCHANGED <<users, max_retries, joined, expiryVars>>

\* add: "await pool.set(shadow_key, -1)"
AddShadow(p) ==
    /\ proc[p].pc = "add_shadow"
    /\ shadow' = [shadow EXCEPT ![proc[p].game_id] = RedisSet(-1)]
    /\ proc' = [proc EXCEPT ![p].pc = "add_expire"]
    /\ UNCHANGED <<games, users, max_retries, joined, dispatcherVars, historyVars>>

\* add: "await pool.expire(shadow_key, expire_time)" and the return of the id
AddExpire(p) ==
    /\ proc[p].pc = "add_expire"
    /\ shadow' = [shadow EXCEPT ![proc[p].game_id] = RedisExpire(@, proc[p].extend_time)]
    /\ proc' = [proc EXCEPT ![p] = Returned(proc[p], "", proc[p].game_status)]
    /\ UNCHANGED <<games, users, max_retries, joined, dispatcherVars, historyVars>>

\* GameStatus.get(game_id): JSON.GET, then Game(**game_state) or GameNotFound
GameStatusGet(p) ==
    /\ proc[p].pc = "get"
    /\ LET pr == proc[p]
           game_state == games[pr.game_id]
       IN  proc' = [proc EXCEPT ![p] =
                IF game_state = NoKey THEN Returned(pr, "GameNotFound", <<>>)
                ELSE IF DOMAIN game_state[1] # GameFields THEN Returned(pr, "TypeError", <<>>)
                ELSE Returned(pr, "", GameFromState(game_state[1]))]
    /\ UNCHANGED <<games, users, max_retries, joined, expiryVars>>

\* set_expiry: "if await pool.exists(game_id)" ... else raise GameNotFound
SetExpiryExists(p) ==
    /\ proc[p].pc = "se_exists"
    /\ proc' = [proc EXCEPT ![p] =
            IF games[proc[p].game_id] # NoKey
            THEN [proc[p] EXCEPT !.pc = "se_apply"]
            ELSE Returned(proc[p], "GameNotFound", <<>>)]
    /\ UNCHANGED <<games, users, max_retries, joined, expiryVars>>

\* "if extend_time": None, and a timedelta of zero, are false
Truthy(extend_time) == extend_time # None

\* set_expiry: EXPIRE or PERSIST of the shadow key
SetExpiryApply(p) ==
    /\ proc[p].pc = "se_apply"
    /\ shadow' = [shadow EXCEPT ![proc[p].game_id] =
            IF Truthy(proc[p].extend_time)
            THEN RedisExpire(@, proc[p].extend_time)
            ELSE RedisPersist(@)]
    /\ proc' = [proc EXCEPT ![p] = Returned(proc[p], "", <<>>)]
    /\ UNCHANGED <<games, users, max_retries, joined, dispatcherVars, historyVars>>

\* delete: "await pool.delete(game_id)"
DeleteGame(p) ==
    /\ proc[p].pc = "del_game"
    /\ LET g == proc[p].game_id IN
       /\ games' = [games EXCEPT ![g] = NoKey]
       /\ proc' = [(IF games[g] # NoKey THEN Touch(proc, 1, g) ELSE proc) EXCEPT
                       ![p] = [proc[p] EXCEPT !.pc = "del_shadow"]]
    /\ UNCHANGED <<users, max_retries, joined, expiryVars>>

\* the shadow key is deleted as well
DeleteShadow_KeepsKey(sh, g) == sh

\* the store's shadow keys after DEL of the shadow key of g
DeleteShadowKey(sh, g) == [sh EXCEPT ![g] = NoKey]

\* delete: "await pool.delete(shadow_key)" and the return
DeleteShadow(p) ==
    /\ proc[p].pc = "del_shadow"
    /\ shadow' = DeleteShadowKey(shadow, proc[p].game_id)
    /\ proc' = [proc EXCEPT ![p] = Returned(proc[p], "", <<>>)]
    /\ UNCHANGED <<games, users, max_retries, joined, dispatcherVars, historyVars>>

\* the store's clock ticks for the shadow key of g
ShadowAges(g) ==
    /\ shadow[g] # NoKey
    /\ shadow[g][1].ttl > 1
    /\ shadow' = [shadow EXCEPT ![g] = Doc([shadow[g][1] EXCEPT !.ttl = @ - 1])]
    /\ UNCHANGED <<games, users, max_retries, proc, joined, dispatcherVars, historyVars>>

\* a PubSub object whose connection is subscribed to the channel
Subscribed(ps, channel) == ps.patterns[channel] # ""

\* PUBLISH channel data by the store: every subscribed connection gets it
Publish(pss, channel, data) ==
    [k \in DOMAIN pss |->
        IF Subscribed(pss[k], channel)
        THEN [pss[k] EXCEPT !.inbox = Append(@, [channel |-> channel, data |-> data])]
        ELSE pss[k]]

\* the time to live of the shadow key of g runs out: the store removes the
\* key and, when expiry events are enabled, publishes the key on the
\* expiry channel of db 1
ShadowLapses(g) ==
    /\ shadow[g] # NoKey
    /\ shadow[g][1].ttl = 1
    /\ shadow' = [shadow EXCEPT ![g] = NoKey]
    /\ expired' = [expired EXCEPT ![g] = @ + 1]
    /\ IF notify
       THEN /\ pubsubs' = Publish(pubsubs, ExpiredChannel, get_shadow_key(g))
            /\ delivered' = [delivered EXCEPT ![g] =
                                IF \E k \in DOMAIN pubsubs :
                                       /\ Subscribed(pubsubs[k], ExpiredChannel)
                                       /\ ~pubsubs[k].cancelled
                                THEN @ + 1 ELSE @]
       ELSE UNCHANGED <<pubsubs, delivered>>
    /\ UNCHANGED <<users, max_retries, joined, main_instance, imported, loop,
                   notify, pubsub_callbacks, pubsub_task, recreate, expire_callbacks,
                   handled, invoked>>

\* the time to live put on the game document, which then goes with it
ShadowExpires_WithGame(g) ==
    /\ ShadowLapses(g)
    /\ games' = [games EXCEPT ![g] = NoKey]
    /\ proc' = Touch(proc, 1, g)

\* only the shadow key has a time to live: the game document stays
ShadowExpires(g) ==
    /\ ShadowLapses(g)
    /\ UNCHANGED <<games, proc>>

\* the store when the calls begin: game 1 is absent, or stored with a shadow
\* key that is about to lapse; nothing listens
InitStore ==
    /\ games \in {[g \in StoreIds |-> NoKey],
                  [g \in StoreIds |-> IF g = 1 THEN Doc(asdict(SeedGame)) ELSE NoKey]}
    /\ shadow = [g \in StoreIds |-> IF games[g] = NoKey THEN NoKey
                                    ELSE RedisExpire(RedisSet(-1), 1)]
    /\ users = [u \in UserIds |-> NoKey]
    /\ max_retries = InitRetries
    /\ proc = InitProcs
    /\ joined = [u \in UserIds |-> {}]
    /\ main_instance = TRUE
    /\ NotImported
    /\ NoHistory(StoreIds)

NextGameStatus ==
    \/ \E p \in GameClients, k \in DOMAIN GameInputs : CallGameStatus(p, k)
    \/ \E p \in GameClients : AddSet(p)
    \/ \E p \in GameClients : AddShadow(p)
    \/ \E p \in GameClients : AddExpire(p)
    \/ \E p \in GameClients : GameStatusGet(p)
    \/ \E p \in GameClients : SetExpiryExists(p)
    \/ \E p \in GameClients : SetExpiryApply(p)
    \/ \E p \in GameClients : DeleteGame(p)
    \/ \E p \in GameClients : DeleteShadow(p)
    \/ \E p \in GameClients : PwExists(p)
    \/ \E p \in GameClients : PwWatch(p)
    \/ \E p \in GameClients : UserAcceptedGet(p)
    \/ \E p \in GameClients : UserAcceptedExec(p)
    \/ \E g \in StoreIds : ShadowAges(g)
    \/ \E g \in StoreIds : ShadowExpires(g)

SpecGameStatus == InitStore /\ [][NextGameStatus]_vars

\* ------------------------------------------------- expiry dispatcher
\* a PubSub object: the patterns psubscribe was called with and their
\* handlers, the loop its run() task belongs to, whether that task has been
\* created and cancelled, the messages its connection has received, the
\* exception that ended its task, and (history) the handler its task
\* awaited last, with the message data
NewPubSub(patterns, on_loop) ==
    [patterns |-> patterns, loop |-> on_loop, running |-> FALSE, cancelled |-> FALSE,
     inbox |-> <<>>, exc |-> "", called |-> <<>>]

\* "if RedisDb.__pubsub_task != None: RedisDb.__pubsub_task.cancel()"
CancelTask(pss, task) ==
    IF task = None THEN pss ELSE [pss EXCEPT ![task].cancelled = TRUE]

\* the class body of GameStatus is executed:
\* "@RedisDb.is_pubsub_callback(...)" on __expire_handler.  Off the main
\* instance is_main_instance makes is_pubsub_callback return None, and
\* None is then called with the handler.  On the main instance the handler
\* is registered and __recreate_pubsub_task becomes a task of the running
\* loop, or, when no loop is running, is run to its end on a new loop that
\* is not run again
ImportGameStatus ==
    /\ imported = "no"
    /\ IF ~main_instance
       THEN /\ imported' = "TypeError"
            /\ UNCHANGED <<notify, pubsub_callbacks, pubsub_task, pubsubs, recreate>>
       ELSE /\ imported' = "yes"
            /\ pubsub_callbacks' = [pubsub_callbacks EXCEPT
                                       ![ExpiredChannel] = "__expire_handler"]
            /\ IF loop = "main"
               THEN /\ recreate' = Append(recreate, [pc |-> "start", pubsub |-> 0,
                                                     patterns |-> pubsub_callbacks',
                                                     call |-> "is_pubsub_callback"])
                    /\ UNCHANGED <<notify, pubsub_task, pubsubs>>
               ELSE \* __recreate_pubsub_task runs from start to end on the
                    \* new loop with nothing else running
                    /\ notify' = (notify \/ pubsub_task = None)
                    /\ pubsubs' = Append(CancelTask(pubsubs, pubsub_task),
                                         [NewPubSub(pubsub_callbacks', "import")
                                             EXCEPT !.running = TRUE])
                    /\ pubsub_task' = Len(pubsubs) + 1
                    /\ recreate' = recreate
    /\ UNCHANGED <<games, users, max_retries, proc, joined, shadow, main_instance, loop,
                   expire_callbacks, historyVars>>

\* bot.run(): the event loop of the process starts
RunLoop ==
    /\ loop = "none"
    /\ loop' = "main"
    /\ UNCHANGED <<games, users, max_retries, proc, joined, shadow, main_instance, imported,
                   notify, pubsub_callbacks, pubsub_task, pubsubs, recreate,
                   expire_callbacks, historyVars>>

\* __recreate_pubsub_task up to its first await: the old task is cancelled
\* and psubscribe is called with the callbacks of this moment, or
\* "await config_set("notify-keyspace-events", "Ex")"
RecreateStart(r) ==
    /\ loop = "main"
    /\ recreate[r].pc = "start"
    /\ IF pubsub_task # None
       THEN /\ pubsubs' = CancelTask(pubsubs, pubsub_task)
            /\ recreate' = [recreate EXCEPT ![r].pc = "subscribe",
                                            ![r].patterns = pubsub_callbacks]
            /\ notify' = notify
       ELSE /\ notify' = TRUE
            /\ recreate' = [recreate EXCEPT ![r].pc = "configured"]
            /\ pubsubs' = pubsubs
    /\ UNCHANGED <<games, users, max_retries, proc, joined, shadow, main_instance, imported,
                   loop, pubsub_callbacks, pubsub_task, expire_callbacks, historyVars>>

\* config_set has answered: psubscribe is called with the callbacks of
\* this moment
RecreateConfigured(r) ==
    /\ loop = "main"
    /\ recreate[r].pc = "configured"
    /\ recreate' = [recreate EXCEPT ![r].pc = "subscribe", ![r].patterns = pubsub_callbacks]
    /\ UNCHANGED <<games, users, max_retries, proc, joined, shadow, main_instance, imported,
                   loop, notify, pubsub_callbacks, pubsub_task, pubsubs, expire_callbacks,
                   historyVars>>

\* "await new_pubsub_obj.psubscribe(**callbacks)": the store subscribes the
\* connection of the new PubSub object
RecreateSubscribe(r) ==
    /\ loop = "main"
    /\ recreate[r].pc = "subscribe"
    /\ pubsubs' = Append(pubsubs, NewPubSub(recreate[r].patterns, "main"))
    /\ recreate' = [recreate EXCEPT ![r].pc = "create", ![r].pubsub = Len(pubsubs) + 1]
    /\ UNCHANGED <<games, users, max_retries, proc, joined, shadow, main_instance, imported,
                   loop, notify, pubsub_callbacks, pubsub_task, expire_callbacks, historyVars>>

\* "RedisDb.__pubsub_task = asyncio.create_task(new_pubsub_obj.run())"
RecreateCreateTask(r) ==
    /\ loop = "main"
    /\ recreate[r].pc = "create"
    /\ pubsubs' = [pubsubs EXCEPT ![recreate[r].pubsub].running = TRUE]
    /\ pubsub_task' = recreate[r].pubsub
    /\ recreate' = [recreate EXCEPT ![r].pc = "done"]
    /\ UNCHANGED <<games, users, max_retries, proc, joined, shadow, main_instance, imported,
                   loop, notify, pubsub_callbacks, expire_callbacks, historyVars>>

\* handle_game_expire storing fn whether or not its name is taken
HandleGameExpire_Overwrites(fn) ==
    /\ imported = "yes"
    /\ expire_callbacks' =
          IF fn.name \notin Names(expire_callbacks)
          THEN Append(expire_callbacks, fn)
          ELSE [k \in DOMAIN expire_callbacks |->
                   IF expire_callbacks[k].name = fn.name THEN fn ELSE expire_callbacks[k]]
    /\ UNCHANGED <<games, users, max_retries, proc, joined, shadow, main_instance, imported,
                   loop, notify, pubsub_callbacks, pubsub_task, pubsubs, recreate,
                   historyVars>>

\* GameStatus.handle_game_expire(fn): fn is registered under its name
\* unless that name is taken
HandleGameExpire(fn) ==
    /\ imported = "yes"
    /\ expire_callbacks' = IF fn.name \notin Names(expire_callbacks)
                           THEN Append(expire_callbacks, fn)
                           ELSE expire_callbacks
    /\ UNCHANGED <<games, users, max_retries, proc, joined, shadow, main_instance, imported,
                   loop, notify, pubsub_callbacks, pubsub_task, pubsubs, recreate,
                   historyVars>>

\* __expire_handler: "msg.startswith(GameStatus.__get_shadow_key(""))"
IsShadowKey(data) == Len(data) = 2 /\ data[1] = get_shadow_key(0)[1]

\* a key name that 'msg["data"].decode("utf-8")' cannot decode
NotUtf8 == <<"\\xff">>

\* the run() task of PubSub object k reads one message and awaits the
\* handler of its pattern.  In __expire_handler a shadow key is split at
\* ":" and every registered callback is started with the game id; data
\* that cannot be decoded raises ValueError, which run(), called without an
\* exception_handler, raises again: the task ends
ListenerStep(k) ==
    /\ loop = "main"
    /\ pubsubs[k].loop = "main"
    /\ pubsubs[k].running /\ ~pubsubs[k].cancelled
    /\ pubsubs[k].exc = ""
    /\ pubsubs[k].inbox # <<>>
    /\ LET msg == Head(pubsubs[k].inbox)
           handler == pubsubs[k].patterns[msg.channel]
       IN
       /\ pubsubs' = [pubsubs EXCEPT ![k].inbox = Tail(@),
                                     ![k].called = <<handler, msg.data>>,
                                     ![k].exc = IF /\ handler = "__expire_handler"
                                                   /\ msg.data = NotUtf8
                                                THEN "ValueError" ELSE @]
       /\ IF handler = "__expire_handler" /\ IsShadowKey(msg.data)
          THEN LET game_id == msg.data[2] IN
               /\ handled' = [handled EXCEPT ![game_id] = @ + 1]
               \* "for callback in __expire_callbacks.values():
               \*      asyncio.ensure_future(callback(game_id))"
               /\ invoked' = [x \in DOMAIN invoked |->
                                 IF x[2] = game_id /\ x[1] \in Names(expire_callbacks)
                                 THEN invoked[x] + 1 ELSE invoked[x]]
          ELSE UNCHANGED <<handled, invoked>>
    /\ UNCHANGED <<games, users, max_retries, proc, joined, shadow, main_instance, imported,
                   loop, notify, pubsub_callbacks, pubsub_task, recreate, expire_callbacks,
                   expired, delivered>>

\* two stored games whose shadow keys are still to lapse, in a process
\* that has not imported anything yet, main instance or not
InitExpire ==
    /\ games = [g \in StoreIds |-> Doc(asdict(SeedGame))]
    /\ shadow = [g \in StoreIds |-> RedisExpire(RedisSet(-1), IF g = 1 THEN 1 ELSE MaxTtl)]
    /\ users = [u \in UserIds |-> NoKey]
    /\ max_retries = InitRetries
    /\ proc = InitProcs
    /\ joined = [u \in UserIds |-> {}]
    /\ main_instance \in BOOLEAN
    /\ NotImported
    /\ NoHistory(StoreIds)

\* the most __recreate_pubsub_task coroutines and PubSub objects there are
MaxPubSubs == 3

NextExpire ==
    \/ ImportGameStatus
    \/ RunLoop
    \/ \E r \in 1..MaxPubSubs : r \in DOMAIN recreate /\ RecreateStart(r)
    \/ \E r \in 1..MaxPubSubs : r \in DOMAIN recreate /\ RecreateConfigured(r)
    \/ \E r \in 1..MaxPubSubs : r \in DOMAIN recreate /\ RecreateSubscribe(r)
    \/ \E r \in 1..MaxPubSubs : r \in DOMAIN recreate /\ RecreateCreateTask(r)
    \/ \E fn \in [name : CallbackNames, fn : {1, 2}] : HandleGameExpire(fn)
    \/ \E k \in 1..MaxPubSubs : k \in DOMAIN pubsubs /\ ListenerStep(k)
    \/ \E g \in StoreIds : ShadowAges(g)
    \/ \E g \in StoreIds : ShadowExpires(g)

SpecExpire == InitExpire /\ [][NextExpire]_vars

\* the event loop, once it runs, runs every task that can go on
FairSpecExpire ==
    /\ SpecExpire
    /\ WF_vars(\E r \in 1..MaxPubSubs : r \in DOMAIN recreate /\ RecreateStart(r))
    /\ WF_vars(\E r \in 1..MaxPubSubs : r \in DOMAIN recreate /\ RecreateConfigured(r))
    /\ WF_vars(\E r \in 1..MaxPubSubs : r \in DOMAIN recreate /\ RecreateSubscribe(r))
    /\ WF_vars(\E r \in 1..MaxPubSubs : r \in DOMAIN recreate /\ RecreateCreateTask(r))
    /\ WF_vars(\E k \in 1..MaxPubSubs : k \in DOMAIN pubsubs /\ ListenerStep(k))
    /\ WF_vars(RunLoop)

\* GameStatus.remove_expire_handler(fn), awaited by a coroutine: nothing
\* off the main instance; KeyError when no callback has the name of fn,
\* otherwise the callback of that name is taken out
RemoveExpireHandler(p, fn) ==
    /\ loop = "main"
    /\ imported = "yes"
    /\ proc[p].pc = "idle"
    /\ \A q \in 1..(p - 1) : proc[q].pc # "idle"
    /\ LET pr == [IdleProc EXCEPT !.op = "remove_expire_handler"] IN
       IF ~main_instance
       THEN /\ proc' = [proc EXCEPT ![p] = Finish(pr, "", FALSE, <<fn>>)]
            /\ expire_callbacks' = expire_callbacks
       ELSE IF fn.name \notin Names(expire_callbacks)
       THEN /\ proc' = [proc EXCEPT ![p] = Finish(pr, "KeyError", FALSE, <<fn>>)]
            /\ expire_callbacks' = expire_callbacks
       ELSE /\ proc' = [proc EXCEPT ![p] = Finish(pr, "", FALSE, <<fn>>)]
            \* "del GameStatus.__expire_callbacks[name]"
            /\ expire_callbacks' = SelectSeq(expire_callbacks,
                                             LAMBDA c : c.name # fn.name)
    /\ UNCHANGED <<games, users, max_retries, joined, shadow, main_instance, imported,
                   loop, notify, pubsub_callbacks, pubsub_task, pubsubs, recreate,
                   historyVars>>

\* the coroutines that call remove_expire_handler
RegistryProcs == {1, 2}

NextRegistry ==
    \/ NextExpire
    \/ \E p \in RegistryProcs, fn \in [name : CallbackNames, fn : {1, 2}] :
          RemoveExpireHandler(p, fn)

SpecRegistry == InitExpire /\ [][NextRegistry]_vars

\* ------------------------------------- expiry events of other keys

\* the most expiry events of other keys
MaxOtherEvents == 2

\* a key of db 1 that is not a shadow key lapses: the store publishes its
\* name on the expired channel
OtherKeyExpires(key) ==
    /\ notify
    /\ \E k \in DOMAIN pubsubs : Subscribed(pubsubs[k], ExpiredChannel)
    /\ \A k \in DOMAIN pubsubs :
          Len(SelectSeq(pubsubs[k].inbox, LAMBDA m : ~IsShadowKey(m.data)))
              + (IF pubsubs[k].called # <<>> /\ ~IsShadowKey(pubsubs[k].called[2])
                 THEN 1 ELSE 0) < MaxOtherEvents
    /\ pubsubs' = Publish(pubsubs, ExpiredChannel, key)
    /\ UNCHANGED <<games, users, max_retries, proc, joined, shadow, main_instance, imported,
                   loop, notify, pubsub_callbacks, pubsub_task, recreate, expire_callbacks,
                   historyVars>>

NextDispatch ==
    \/ NextExpire
    \/ \E key \in {<<"1">>, NotUtf8} : OtherKeyExpires(key)

SpecDispatch == InitExpire /\ [][NextDispatch]_vars

\* ------------------------------------------- pub/sub callbacks by hand

\* the coroutine of __recreate_pubsub_task that add_pubsub_callback and
\* remove_pubsub_callback await, run up to its first await: the old task is
\* cancelled and psubscribe is called with the callbacks of this moment, or
\* "await config_set("notify-keyspace-events", "Ex")"
AwaitRecreate(call) ==
    IF pubsub_task # None
    THEN /\ pubsubs' = CancelTask(pubsubs, pubsub_task)
         /\ recreate' = Append(recreate, [pc |-> "subscribe", pubsub |-> 0,
                                          patterns |-> pubsub_callbacks', call |-> call])
         /\ notify' = notify
    ELSE /\ notify' = TRUE
         /\ recreate' = Append(recreate, [pc |-> "configured", pubsub |-> 0,
                                          patterns |-> pubsub_callbacks', call |-> call])
         /\ pubsubs' = pubsubs

\* a coroutine awaits RedisDb.add_pubsub_callback(channel_pattern, fn):
\* nothing off the main instance
AddPubsubCallback(channel_pattern, callback_func) ==
    /\ loop = "main"
    /\ Len(recreate) < MaxPubSubs
    /\ IF ~main_instance
       THEN UNCHANGED <<notify, pubsub_callbacks, pubsubs, recreate>>
       ELSE /\ pubsub_callbacks' = [pubsub_callbacks EXCEPT
                                       ![channel_pattern] = callback_func]
            /\ AwaitRecreate("add_pubsub_callback")
    /\ UNCHANGED <<games, users, max_retries, proc, joined, shadow, main_instance, imported,
                   loop, pubsub_task, expire_callbacks, historyVars>>

\* a coroutine awaits RedisDb.remove_pubsub_callback(channel_pattern) for
\* a registered pattern (del raises KeyError for any other): nothing off
\* the main instance
RemovePubsubCallback(channel_pattern) ==
    /\ loop = "main"
    /\ Len(recreate) < MaxPubSubs
    /\ pubsub_callbacks[channel_pattern] # ""
    /\ IF ~main_instance
       THEN UNCHANGED <<notify, pubsub_callbacks, pubsubs, recreate>>
       ELSE /\ pubsub_callbacks' = [pubsub_callbacks EXCEPT ![channel_pattern] = ""]
            /\ AwaitRecreate("remove_pubsub_callback")
    /\ UNCHANGED <<games, users, max_retries, proc, joined, shadow, main_instance, imported,
                   loop, pubsub_task, expire_callbacks, historyVars>>

\* "await conn.publish("test", "test")" by some client of the store, while
\* no earlier message waits to be read
PublishTest ==
    /\ \E k \in DOMAIN pubsubs : Subscribed(pubsubs[k], "test")
    /\ \A k \in DOMAIN pubsubs : pubsubs[k].inbox = <<>>
    /\ pubsubs' = Publish(pubsubs, "test", <<"test">>)
    /\ UNCHANGED <<games, users, max_retries, proc, joined, shadow, main_instance, imported,
                   loop, notify, pubsub_callbacks, pubsub_task, recreate, expire_callbacks,
                   historyVars>>

\* a process, main instance or not, that has imported nothing yet; the
\* store holds no game
InitPubSub ==
    /\ games = [g \in GameIds |-> NoKey]
    /\ shadow = [g \in GameIds |-> NoKey]
    /\ users = [u \in UserIds |-> NoKey]
    /\ max_retries = InitRetries
    /\ proc = InitProcs
    /\ joined = [u \in UserIds |-> {}]
    /\ main_instance \in BOOLEAN
    /\ NotImported
    /\ NoHistory(GameIds)

NextPubSub ==
    \/ ImportGameStatus
    \/ RunLoop
    \/ \E r \in 1..MaxPubSubs : r \in DOMAIN recreate /\ RecreateStart(r)
    \/ \E r \in 1..MaxPubSubs : r \in DOMAIN recreate /\ RecreateConfigured(r)
    \/ \E r \in 1..MaxPubSubs : r \in DOMAIN recreate /\ RecreateSubscribe(r)
    \/ \E r \in 1..MaxPubSubs : r \in DOMAIN recreate /\ RecreateCreateTask(r)
    \/ \E fn \in {"fn", "other_fn"} : AddPubsubCallback("test", fn)
    \/ \E c \in Patterns : RemovePubsubCallback(c)
    \/ PublishTest
    \/ \E k \in 1..MaxPubSubs : k \in DOMAIN pubsubs /\ ListenerStep(k)

SpecPubSub == InitPubSub /\ [][NextPubSub]_vars

\* ------------------------------------------------------------ GameAdmin
\* the tasks that run GameAdmin coroutines
AdminProcs == {1, 2}

\* a task that "asyncio.ensure_future(callback(game_id))" created for
\* GameAdmin.__game_expired runs up to its first await that returns:
\* GameNotifications.game_expired calls GameStatus.get, which raises
\* GameNotFound when the document is gone, and sends the messages
GameExpired(p, g) ==
    /\ loop = "main"
    /\ proc[p].pc = "idle"
    /\ \A q \in AdminProcs : q < p => proc[q].pc # "idle"
    \* fewer runs of __game_expired have started for g than were created
    /\ Cardinality({q \in AdminProcs : proc[q].op = "__game_expired" /\ proc[q].game_id = g})
           < invoked[<<"__game_expired", g>>]
    /\ LET pr == [IdleProc EXCEPT !.op = "__game_expired", !.game_id = g] IN
       proc' = [proc EXCEPT ![p] =
                   IF games[g] = NoKey THEN Returned(pr, "GameNotFound", <<>>)
                   ELSE [pr EXCEPT !.pc = "delete_game"]]
    /\ UNCHANGED <<games, users, max_retries, joined, expiryVars>>

\* a user turns the invite down: the button calls
\* functools.partial(GameAdmin.delete_game, game_id)
CallDeleteGame(p, g) ==
    /\ loop = "main"
    /\ proc[p].pc = "idle"
    /\ \A q \in AdminProcs : q < p => proc[q].pc # "idle"
    /\ proc' = [proc EXCEPT ![p] =
                   [IdleProc EXCEPT !.pc = "delete_game", !.op = "delete_game", !.game_id = g]]
    /\ UNCHANGED <<games, users, max_retries, joined, expiryVars>>

\* delete_game up to GameStatus.delete: GameStatus.get raises GameNotFound
\* when the document is gone; the games here wait for their users
\* (state 0), so neither GameData.delete (state > 1) nor clear_game
\* (state > 0) is called, and GameStatus.delete is (state > -1)
DeleteGameGet(p) ==
    /\ proc[p].pc = "delete_game"
    /\ LET pr == proc[p]
           g  == pr.game_id
       IN  /\ games[g] # NoKey => games[g][1].state = 0
           /\ proc' = [proc EXCEPT ![p] =
                          IF games[g] = NoKey THEN Returned(pr, "GameNotFound", <<>>)
                          ELSE IF GameFromState(games[g][1]).state > -1
                               THEN [pr EXCEPT !.pc = "del_game"]
                               ELSE Returned(pr, "", <<>>)]
    /\ UNCHANGED <<games, users, max_retries, joined, expiryVars>>

NextAdmin ==
    \/ NextExpire
    \/ \E p \in AdminProcs, g \in StoreIds : GameExpired(p, g)
    \/ \E p \in AdminProcs, g \in StoreIds : CallDeleteGame(p, g)
    \/ \E p \in AdminProcs : DeleteGameGet(p)
    \/ \E p \in AdminProcs : DeleteGame(p)
    \/ \E p \in AdminProcs : DeleteShadow(p)

SpecAdmin == InitExpire /\ [][NextAdmin]_vars

\* ------------------------------------------- GameAdmin: start and delete
\* Each awaited call of UserStatus, GameStatus and GameNotifications is
\* one step here: it runs to its end before another task goes on.
StartProcs == {1, 2}

\* the frame of a call of __start_game or delete_game: its position, its
\* game_status / game_details, the index of its join loop, the state it is
\* about to set and the moved up games it has still to start
Frame(fn, g) ==
    [fn |-> fn, pc |-> "get", game_id |-> g, all_users |-> <<>>, state |-> 0,
     i |-> 1, moved |-> {}]

Top(pr) == pr.stack[Len(pr.stack)]
SetTop(pr, f) == [pr EXCEPT !.stack[Len(pr.stack)] = f]
Note(pr, ev) == [pr EXCEPT !.notes = Append(@, ev)]

\* the innermost call returns to its caller, or the task is over
Return(pr) ==
    IF Len(pr.stack) = 1 THEN [pr EXCEPT !.pc = "done", !.stack = <<>>]
    ELSE [pr EXCEPT !.stack = SubSeq(@, 1, Len(@) - 1)]

\* nothing in GameAdmin catches an exception: it ends the task
Raise(pr, exc) == [pr EXCEPT !.pc = "done", !.exc = exc, !.stack = <<>>]

At(p, fn, pc) ==
    /\ proc[p].pc = "admin"
    /\ Top(proc[p]).fn = fn
    /\ Top(proc[p]).pc = pc

\* UserStatus.check_users_are_ready(user_ids, g) run alone
RECURSIVE CheckUsersAreReadyAlone(_, _, _)
CheckUsersAreReadyAlone(us, user_ids, g) ==
    IF user_ids = <<>> THEN "True"
    ELSE IF us[Head(user_ids)] = NoKey THEN "UserNotFound"
    ELSE IF g \notin Range(us[Head(user_ids)][1].active_games) THEN "False"
    ELSE CheckUsersAreReadyAlone(us, Tail(user_ids), g)

\* __move_up_games run alone on a user record: the record afterwards and
\* the games moved
RECURSIVE MoveUpAlone(_, _)
MoveUpAlone(user, moved) ==
    IF CanMoveUp(user)
    THEN MoveUpAlone(MoveUpCommit(user, user), Append(moved, Head(user.queued_games)))
    ELSE [user |-> user, moved |-> moved]

\* UserStatus.clear_game(user_ids, g) run alone: the user records
\* afterwards, the games moved up, the users a notification was removed
\* from, and the exception that left the call
RECURSIVE ClearGameAlone(_, _, _, _, _)
ClearGameAlone(us, user_ids, g, moved, removed) ==
    IF user_ids = <<>>
    THEN [users |-> us, moved |-> moved, removed |-> removed, exc |-> ""]
    ELSE LET u == Head(user_ids) IN
         IF us[u] = NoKey
         THEN [users |-> us, moved |-> moved, removed |-> removed,
               exc |-> KeyNotFoundException("remove_game")]
         ELSE LET st == us[u][1] IN
              IF g \notin Range(st.active_games) /\ g \notin Range(st.queued_games)
              THEN ClearGameAlone(us, Tail(user_ids), g, moved, removed)
              ELSE LET game_type == IF g \in Range(st.active_games)
                                    THEN "active_games" ELSE "queued_games"
                       popped == [st EXCEPT ![game_type] = ArrPopAt(@, Index(@, g))]
                       noted == g \in Range(st.notifications)
                       cleared == IF noted
                                  THEN [popped EXCEPT !.notifications =
                                                          ArrPopAt(@, Index(@, g))]
                                  ELSE popped
                       up == MoveUpAlone(cleared, <<>>)
                       new_removed == IF noted THEN Append(removed, u) ELSE removed
                   IN  IF CanDeleteUser(st)
                       THEN ClearGameAlone([us EXCEPT ![u] = NoKey], Tail(user_ids), g,
                                           moved, new_removed)
                       ELSE ClearGameAlone([us EXCEPT ![u] = Doc(up.user)], Tail(user_ids),
                                           g, moved \cup Range(up.moved), new_removed)

\* a user accepts the invite: GameAdmin.__user_accepted(game_id, user_id)
\* awaits GameStatus.user_accepted and, when nobody is pending any more,
\* calls __start_game
AdminUserAccepted(p, g, u) ==
    /\ proc[p].pc = "idle"
    /\ \A q \in StartProcs : q < p => proc[q].pc # "idle"
    /\ LET pr == Note([IdleProc EXCEPT !.op = "__user_accepted", !.game_id = g,
                                       !.user_id = u, !.pc = "admin"],
                      <<"user_accepted", g, u>>)
       IN  IF games[g] = NoKey
           THEN /\ proc' = [proc EXCEPT ![p] = Raise(pr, "GameNotFound")]
                /\ games' = games
           ELSE IF u \notin Range(games[g][1].pending_users)
           THEN /\ proc' = [proc EXCEPT ![p] = Raise(pr, "UserNotFound")]
                /\ games' = games
           ELSE LET new == UserAcceptedCommit(games[g][1],
                                              Index(games[g][1].pending_users, u))
                IN  /\ games' = [games EXCEPT ![g] = Doc(new)]
                    /\ proc' = [proc EXCEPT ![p] =
                           IF Len(UserAcceptedReply(games[g][1], new)) = 0
                           THEN [pr EXCEPT !.stack = <<Frame("__start_game", g)>>]
                           ELSE [pr EXCEPT !.pc = "done"]]
    /\ UNCHANGED <<users, max_retries, joined, expiryVars>>

\* a user quits a game or turns an invite down: quit_game and the button
\* of the invite call GameAdmin.delete_game(game_id)
AdminDeleteGame(p, g) ==
    /\ proc[p].pc = "idle"
    /\ \A q \in StartProcs : q < p => proc[q].pc # "idle"
    /\ proc' = [proc EXCEPT ![p] =
           [IdleProc EXCEPT !.op = "delete_game", !.game_id = g, !.pc = "admin",
                            !.stack = <<Frame("delete_game", g)>>]]
    /\ UNCHANGED <<games, users, max_retries, joined, expiryVars>>

\* __start_game: "game_status = await GameStatus.get(game_id)"
StartGameGet(p) ==
    /\ At(p, "__start_game", "get")
    /\ LET pr == Note(proc[p], <<"__start_game", Top(proc[p]).game_id>>)
           f  == Top(pr)
       IN  proc' = [proc EXCEPT ![p] =
               IF games[f.game_id] = NoKey THEN Raise(pr, "GameNotFound")
               ELSE SetTop(pr, [f EXCEPT !.pc = "join",
                                         !.all_users = games[f.game_id][1].all_users])]
    /\ UNCHANGED <<games, users, max_retries, joined, expiryVars>>

\* "for user_id in game_status.all_users:
\*      if not await UserStatus.join_game(user_id, game_id):"
\* one pass of the loop up to the end of join_game, or the end of the loop
StartGameJoin(p) ==
    /\ At(p, "__start_game", "join")
    /\ LET pr == proc[p]
           f  == Top(pr)
       IN  IF f.i > Len(f.all_users)
           THEN /\ proc' = [proc EXCEPT ![p] = SetTop(pr, [f EXCEPT !.pc = "ready"])]
                /\ users' = users
           ELSE LET u == f.all_users[f.i]
                    g == f.game_id
                    \* UserStatus.join_game(u, g): where the game goes, "full"
                    \* when join_game returns False
                    t == IF users[u] = NoKey THEN "active_games"
                         ELSE JoinTarget(users[u][1], g)
                    j == [ret |-> t # "full"]
                IN
                /\ users' = IF users[u] = NoKey
                             THEN [users EXCEPT ![u] = Doc(User(<<g>>, <<>>, <<>>))]
                             ELSE IF t \in {"", "full"} THEN users
                             ELSE [users EXCEPT ![u] =
                                      Doc([users[u][1] EXCEPT ![t] = ArrAppend(@, g)])]
                /\ proc' = [proc EXCEPT ![p] =
                       SetTop(Note(pr, <<"join_game", f.game_id, f.all_users[f.i], j.ret>>),
                              IF j.ret THEN [f EXCEPT !.i = f.i + 1]
                              ELSE [f EXCEPT !.pc = "max_games"])]
    /\ UNCHANGED <<games, max_retries, joined, expiryVars>>

\* "await GameNotifications.max_games(game_id, user_id)", which begins with
\* GameStatus.get, and the call of GameAdmin.delete_game(game_id); the loop
\* goes on with the next user when delete_game has returned
StartGameMaxGames(p) ==
    /\ At(p, "__start_game", "max_games")
    /\ LET pr == proc[p]
           f  == Top(pr)
       IN  proc' = [proc EXCEPT ![p] =
               IF games[f.game_id] = NoKey THEN Raise(pr, "GameNotFound")
               ELSE [SetTop(Note(pr, <<"max_games", f.game_id, f.all_users[f.i]>>),
                            [f EXCEPT !.pc = "join", !.i = f.i + 1])
                        EXCEPT !.stack = Append(@, Frame("delete_game", f.game_id))]]
    /\ UNCHANGED <<games, users, max_retries, joined, expiryVars>>

\* "if await UserStatus.check_users_are_ready(game_status.all_users, game_id)"
StartGameReady(p) ==
    /\ At(p, "__start_game", "ready")
    /\ LET pr == proc[p]
           f  == Top(pr)
           ready == CheckUsersAreReadyAlone(users, f.all_users, f.game_id)
       IN  proc' = [proc EXCEPT ![p] =
               IF ready = "UserNotFound" THEN Raise(pr, "UserNotFound")
               ELSE SetTop(pr, [f EXCEPT !.pc = "notify",
                                         !.state = IF ready = "True" THEN 2 ELSE 1])]
    /\ UNCHANGED <<games, users, max_retries, joined, expiryVars>>

\* "await GameNotifications.game_start(game_id)" or game_queued(game_id):
\* both begin with GameStatus.get
StartGameNotify(p) ==
    /\ At(p, "__start_game", "notify")
    /\ LET pr == proc[p]
           f  == Top(pr)
       IN  proc' = [proc EXCEPT ![p] =
               IF games[f.game_id] = NoKey THEN Raise(pr, "GameNotFound")
               ELSE SetTop(Note(pr, <<IF f.state = 2 THEN "game_start" ELSE "game_queued",
                                      f.game_id>>),
                           [f EXCEPT !.pc = "set_game_state"])]
    /\ UNCHANGED <<games, users, max_retries, joined, expiryVars>>

\* "await GameStatus.set_game_state(game_id, 2)", or 1 for a queued game
StartGameSetState(p) ==
    /\ At(p, "__start_game", "set_game_state")
    /\ LET pr == proc[p]
           f  == Top(pr)
       IN  IF games[f.game_id] = NoKey
           THEN /\ proc' = [proc EXCEPT ![p] = Raise(pr, "GameNotFound")]
                /\ games' = games
           ELSE /\ games' = [games EXCEPT ![f.game_id] =
                                Doc([games[f.game_id][1] EXCEPT !.state = f.state])]
                /\ proc' = [proc EXCEPT ![p] =
                       SetTop(Note(pr, <<"set_game_state", f.game_id, f.state>>),
                              [f EXCEPT !.pc = "set_expiry"])]
    /\ UNCHANGED <<users, max_retries, joined, expiryVars>>

\* "await GameStatus.set_expiry(game_id, bot.game_no_move_expiry)", here
\* MaxTtl, or None for a queued game, whose __start_game returns then
StartGameSetExpiry(p) ==
    /\ At(p, "__start_game", "set_expiry")
    /\ LET pr == proc[p]
           f  == Top(pr)
           g  == f.game_id
       IN  IF games[g] = NoKey
           THEN /\ proc' = [proc EXCEPT ![p] = Raise(pr, "GameNotFound")]
                /\ shadow' = shadow
           ELSE /\ shadow' = [shadow EXCEPT ![g] =
                                 IF f.state = 2 THEN RedisExpire(@, MaxTtl)
                                 ELSE RedisPersist(@)]
                /\ proc' = [proc EXCEPT ![p] =
                       IF f.state = 2
                       THEN SetTop(Note(pr, <<"set_expiry", g>>), [f EXCEPT !.pc = "module"])
                       ELSE Return(Note(pr, <<"set_expiry", g>>))]
    /\ UNCHANGED <<games, users, max_retries, joined, dispatcherVars, historyVars>>

\* "await game_module.start_game(game_id)", and __start_game returns
StartGameModule(p) ==
    /\ At(p, "__start_game", "module")
    /\ proc' = [proc EXCEPT ![p] =
           Return(Note(proc[p], <<"start_game", Top(proc[p]).game_id>>))]
    /\ UNCHANGED <<games, users, max_retries, joined, expiryVars>>

\* delete_game: "game_details = await GameStatus.get(game_id)", and
\* GameData.delete for a started game
DeleteGameDetails(p) ==
    /\ At(p, "delete_game", "get")
    /\ LET pr == Note(proc[p], <<"delete_game", Top(proc[p]).game_id>>)
           f  == Top(pr)
       IN  proc' = [proc EXCEPT ![p] =
               IF games[f.game_id] = NoKey THEN Raise(pr, "GameNotFound")
               ELSE LET game_details == games[f.game_id][1] IN
                    SetTop(pr, [f EXCEPT !.all_users = game_details.all_users,
                                         !.state = game_details.state,
                                         !.pc = IF game_details.state > 0
                                                THEN "clear_game" ELSE "delete"])]
    /\ UNCHANGED <<games, users, max_retries, joined, expiryVars>>

\* "if game_details.state > 0": UserStatus.clear_game, then
\* removed_game_notification for every user a notification was removed
\* from, which raises UserNotFound for a user whose record is gone
DeleteGameClear(p) ==
    /\ At(p, "delete_game", "clear_game")
    /\ LET pr == proc[p]
           f  == Top(pr)
           c  == ClearGameAlone(users, f.all_users, f.game_id, {}, <<>>)
       IN  /\ users' = c.users
           /\ proc' = [proc EXCEPT ![p] =
                  IF c.exc # "" THEN Raise(pr, c.exc)
                  ELSE IF \E k \in DOMAIN c.removed : c.users[c.removed[k]] = NoKey
                  THEN Raise(pr, "UserNotFound")
                  ELSE SetTop(Note(pr, <<"clear_game", f.game_id>>),
                              [f EXCEPT !.pc = "start_moved", !.moved = c.moved])]
    /\ UNCHANGED <<games, max_retries, joined, expiryVars>>

\* "for moved_up_game in moved_up_games:
\*      await GameAdmin.__start_game(moved_up_game)"
DeleteGameStartMoved(p) ==
    /\ At(p, "delete_game", "start_moved")
    /\ LET pr == proc[p]
           f  == Top(pr)
       IN  IF f.moved = {}
           THEN proc' = [proc EXCEPT ![p] = SetTop(pr, [f EXCEPT !.pc = "delete"])]
           ELSE \E moved_up_game \in f.moved :
                   proc' = [proc EXCEPT ![p] =
                       [SetTop(pr, [f EXCEPT !.moved = @ \ {moved_up_game}])
                           EXCEPT !.stack = Append(@, Frame("__start_game", moved_up_game))]]
    /\ UNCHANGED <<games, users, max_retries, joined, expiryVars>>

\* "if game_details.state > -1: await GameStatus.delete(game_id)", and
\* delete_game returns
DeleteGameStatus(p) ==
    /\ At(p, "delete_game", "delete")
    /\ LET pr == proc[p]
           g  == Top(pr).game_id
       IN  /\ games' = [games EXCEPT ![g] = NoKey]
           /\ shadow' = DeleteShadowKey(shadow, g)
           /\ proc' = [proc EXCEPT ![p] = Return(Note(pr, <<"GameStatus.delete", g>>))]
    /\ UNCHANGED <<users, max_retries, joined, dispatcherVars, historyVars>>

\* games 1 and 2 are in progress, game 7 is queued for users 1 and 2,
\* whose active lists are full, and game 9 waits for user 1 to accept.  The
\* queue of user 2 is full as well.  Games 3 to 6, 8 and 10 to 14 only fill
\* the lists
InitStart ==
    /\ games = [g \in {1, 2, 7, 9} |->
                  LET StartGame(state, all_users, pending_users) ==
                          [state |-> state, game_module_name |-> "Tic Tac Toe",
                           starting_user |-> all_users[1], all_users |-> all_users,
                           pending_users |-> pending_users,
                           usernames |-> [k \in 1..Len(all_users) |-> "name"]]
                  IN
                  CASE g = 1 -> Doc(StartGame(2, <<3, 1>>, <<>>))
                    [] g = 2 -> Doc(StartGame(2, <<3, 2>>, <<>>))
                    [] g = 7 -> Doc(StartGame(1, <<1, 2>>, <<>>))
                    [] g = 9 -> Doc(StartGame(0, <<3, 2, 1>>, <<1>>))]
    /\ shadow = [g \in {1, 2, 7, 9} |->
                  IF g = 7 THEN RedisPersist(RedisSet(-1))
                  ELSE RedisExpire(RedisSet(-1), MaxTtl)]
    /\ users = [u \in {1, 2, 3} |->
                  CASE u = 1 -> Doc(User(<<1, 3, 4, 5, 6, 8>>, <<7>>, <<>>))
                    [] u = 2 -> Doc(User(<<2, 3, 4, 5, 6, 8>>, <<7, 10, 11, 12, 13, 14>>, <<>>))
                    [] u = 3 -> Doc(User(<<1, 2>>, <<>>, <<>>))]
    /\ max_retries = InitRetries
    /\ proc = InitProcs
    /\ joined = [u \in {1, 2, 3} |-> {}]
    /\ main_instance = TRUE
    /\ NotImported
    /\ NoHistory({1, 2, 7, 9})

NextStart ==
    \/ \E p \in StartProcs : AdminUserAccepted(p, 9, 1)
    \/ \E p \in StartProcs, g \in {1, 2, 9} : AdminDeleteGame(p, g)
    \/ \E p \in StartProcs : StartGameGet(p)
    \/ \E p \in StartProcs : StartGameJoin(p)
    \/ \E p \in StartProcs : StartGameMaxGames(p)
    \/ \E p \in StartProcs : StartGameReady(p)
    \/ \E p \in StartProcs : StartGameNotify(p)
    \/ \E p \in StartProcs : StartGameSetState(p)
    \/ \E p \in StartProcs : StartGameSetExpiry(p)
    \/ \E p \in StartProcs : StartGameModule(p)
    \/ \E p \in StartProcs : DeleteGameDetails(p)
    \/ \E p \in StartProcs : DeleteGameClear(p)
    \/ \E p \in StartProcs : DeleteGameStartMoved(p)
    \/ \E p \in StartProcs : DeleteGameStatus(p)

SpecStart == InitStart /\ [][NextStart]_vars

\* =============================================================== claims
Done(p) == proc[p].pc = "done"
Succeeded(p) == Done(p) /\ proc[p].exc = ""

\* the users whose user_accepted call has returned a list
AcceptedUsers == {proc[p].user_id : p \in {q \in GameProcs : Succeeded(q)}}

\* C1: N user_accepted calls for N distinct pending users of one game, run
\* concurrently with nothing else writing the game, all succeed, and once
\* all have returned pending_users is the initial list without those users.
C1_ConcurrentAcceptsAllSucceed ==
    /\ \A p \in GameProcs :
          Done(p) /\ proc[p].user_id \in Range(InitialGame.pending_users) => proc[p].exc = ""
    /\ (\A p \in GameProcs : Done(p)) =>
          games[1][1].pending_users =
              SelectSeq(InitialGame.pending_users, LAMBDA u : u \notin AcceptedUsers)

\* C3: a call runs its body at most max_retries + 1 times, and a call whose
\* every attempt conflicted raises WatchError after exactly max_retries + 1
\* body executions.
C3_RetryBound ==
    \A p \in RetryProcs :
        /\ proc[p].runs <= default_max_retries + 1
        /\ Done(p) /\ proc[p].exc = "WatchError" => proc[p].runs = default_max_retries + 1
        /\ Done(p) /\ proc[p].runs > 0 /\ proc[p].conflicts = proc[p].runs =>
              proc[p].exc = "WatchError"

\* C4: a conflicting write between watch and commit leaves the store as the
\* other writer left it and sends the call back to the start of the retry
\* loop; a call that met exactly one conflict ran its body twice and
\* succeeded.
C4_OneConflictRunsTwice ==
    [][\A p \in RetryProcs :
          /\ proc[p].pc = "exec" /\ proc[p].dirty /\ proc'[p] # proc[p] =>
                games' = games /\ proc'[p].pc = "pw_exists"
          /\ proc'[p].pc = "done" /\ proc'[p].conflicts = 1 =>
                proc'[p].exc = "" /\ proc'[p].runs = 2]_vars

\* C2: clear_game never raises because a listed user has no record or does
\* not hold the game; such a user is skipped.
C2_ClearGameSkipsMissing ==
    \A p \in UserProcs :
        Done(p) /\ proc[p].op = "clear_game" =>
            proc[p].exc \notin {"ValueError", "UserNotFound", "GameNotFound"}

\* C5: every stored user record has at most max_active_games active games
\* and at most max_queued_games queued games.
C5_ListsBounded ==
    \A u \in UserIds :
        users[u] # NoKey =>
            /\ Len(users[u][1].active_games) <= max_active_games
            /\ Len(users[u][1].queued_games) <= max_queued_games

\* C6: no game id occurs twice in a user's active_games and queued_games
\* taken together.
C6_NoDuplicateGame ==
    \A u \in UserIds :
        users[u] # NoKey =>
            \A j, k \in 1..Len(HeldGames(users[u][1])) :
                j # k => HeldGames(users[u][1])[j] # HeldGames(users[u][1])[k]

\* C7: a game join_game returned True for is held by the user until a
\* clear_game removes it, and join_game does not fail for want of a record.
C7_JoinedGameStays ==
    /\ \A u \in UserIds :
          joined[u] # {} =>
              users[u] # NoKey /\ joined[u] \subseteq Range(HeldGames(users[u][1]))
    /\ \A p \in UserProcs :
          Done(p) /\ proc[p].op = "join_game" => proc[p].exc \notin {"ValueError", "TypeError"}

BothFull(user) ==
    /\ Len(user.active_games) >= max_active_games
    /\ Len(user.queued_games) >= max_queued_games

C9_NoEmptyRecord ==
    \A u \in UserIds :
        users[u] # NoKey => Len(HeldGames(users[u][1])) > 0

C9_Witness ==
    \E p \in UserProcs :
        /\ Done(p) /\ proc[p].op = "clear_game" /\ proc[p].deleted
        /\ users[proc[p].user_id] = NoKey

\* the step in which coroutine p commits one promotion
PromotionStep(p) ==
    /\ proc[p].pc = "exec" /\ proc[p].fn = "move_up_games"
    /\ [proc'[p] EXCEPT !.dirty = proc[p].dirty] # proc[p]
    /\ users'[proc[p].user_id] # users[proc[p].user_id]

\* C10: a promotion takes the first element of the stored queued_games,
\* appends that game to the end of active_games and leaves the rest of the
\* queue in order.
C10_PromotionFifo ==
    [][\A p \in UserProcs :
          PromotionStep(p) =>
              LET old == users[proc[p].user_id][1]
                  new == users'[proc[p].user_id][1]
              IN  /\ Len(old.queued_games) > 0
                  /\ new.active_games = Append(old.active_games, Head(old.queued_games))
                  /\ new.queued_games = Tail(old.queued_games)]_vars

\* no coroutine is inside a call
Quiet == \A q \in UserProcs : proc[q].pc \in {"idle", "done"}

\* C19: once clear_game has removed the game from a user who still has a
\* record, and no other operation on that user is in flight, that user does
\* not have both a free slot in active_games and a non-empty queued_games.
C19_PromotionRunsToEnd ==
    \A p \in ClearProcs :
        Done(p) /\ proc[p].op = "clear_game" /\ Quiet =>
            \A u \in proc[p].removed_from :
                users[u] # NoKey => ~CanMoveUp(users[u][1])

\* C20: the set clear_game returns is the set of games this call moved from
\* a stored queued_games to the stored active_games, and the list it returns
\* holds the users whose notification of the game this call removed.
C20_ClearGameReportsItsMoves ==
    \A p \in UserProcs :
        Done(p) /\ proc[p].op = "clear_game" /\ proc[p].exc = "" =>
            /\ proc[p].moved_up_games = proc[p].promoted
            /\ proc[p].notifications_removed_from = proc[p].cleared_from

\* ------------------------------------------------- GameStatus claims
\* coroutine p takes the step that ends its call
Returns(p) == proc[p].pc \notin {"idle", "done"} /\ proc'[p].pc = "done"

C13_MissingKeyRaises ==
    [][\A p \in GameClients :
          ( /\ proc[p].pc = "pw_exists" /\ proc[p].fn = "user_accepted"
            /\ games[proc[p].game_id] = NoKey
            /\ proc'[p] # proc[p] )
          => /\ proc'[p].pc = "done" /\ proc'[p].exc = "GameNotFound"
             /\ proc'[p].runs = proc[p].runs
             /\ games' = games /\ shadow' = shadow /\ users' = users]_vars

C13_Witness ==
    \E p \in GameClients :
        /\ Done(p) /\ proc[p].op = "user_accepted"
        /\ proc[p].exc = "GameNotFound" /\ proc[p].runs = 0
        /\ games[proc[p].game_id] = NoKey

\* the users that are pending in some game of the scenarios
PendingEver ==
    Range(InitialGame.pending_users) \cup Range(SeedGame.pending_users)
        \cup Range(AddedGame.pending_users)

\* C14: user_accepted for a user who is not pending raises UserNotFound
\* (GameNotFound when there is no game), and of the calls for the same
\* pending user of a stored game exactly one succeeds and the others raise
\* UserNotFound.
C14_AcceptOnce ==
    /\ \A p \in Procs :
          Done(p) /\ proc[p].op = "user_accepted" /\ proc[p].user_id \notin PendingEver =>
              proc[p].exc \in {"UserNotFound", "GameNotFound"}
    /\ \A p, q \in Procs :
          ( /\ p # q /\ Done(p) /\ Done(q)
            /\ proc[p].op = "user_accepted" /\ proc[q].op = "user_accepted"
            /\ proc[p].game_id = proc[q].game_id /\ proc[p].user_id = proc[q].user_id
            /\ proc[p].user_id \in PendingEver
            /\ proc[p].exc # "GameNotFound" /\ proc[q].exc # "GameNotFound" )
          => /\ {proc[p].exc, proc[q].exc} \subseteq {"", "UserNotFound"}
             /\ ~(proc[p].exc = "" /\ proc[q].exc = "")
             /\ \E r \in Procs :
                   /\ Done(r) /\ proc[r].op = "user_accepted" /\ proc[r].exc = ""
                   /\ proc[r].game_id = proc[p].game_id /\ proc[r].user_id = proc[p].user_id

\* the relation between the user lists of a game
GameInvariant(game) ==
    /\ Range(game.pending_users) \subseteq Range(game.all_users)
    /\ game.starting_user \notin Range(game.pending_users)

\* C15: every stored game keeps pending_users within all_users and without
\* the starting user, and a user_accepted call that returns has removed
\* the accepting user from pending_users, once, and nothing else.
C15_AcceptRemovesOnlyTheUser ==
    [][/\ \A g \in DOMAIN games : games'[g] # NoKey => GameInvariant(games'[g][1])
       /\ \A p \in GameClients :
             proc[p].fn = "user_accepted" /\ Returns(p) /\ proc'[p].exc = "" =>
                 LET old == games[proc[p].game_id][1]
                     new == games'[proc[p].game_id][1]
                 IN  /\ new = [old EXCEPT !.pending_users =
                                 SelectSeq(old.pending_users,
                                           LAMBDA u : u # proc[p].user_id)]
                     /\ Len(new.pending_users) = Len(old.pending_users) - 1
                     /\ proc'[p].results = new.pending_users
                     /\ \A h \in DOMAIN games : h # proc[p].game_id => games'[h] = games[h]
                     /\ shadow' = shadow]_vars

C15_Witness ==
    \E p \in GameClients :
        /\ Done(p) /\ proc[p].op = "user_accepted" /\ proc[p].exc = ""
        /\ games[proc[p].game_id] # NoKey
        /\ proc[p].user_id \notin Range(games[proc[p].game_id][1].pending_users)
        /\ proc[p].user_id \in Range(games[proc[p].game_id][1].all_users)

\* C16: set_expiry writes nothing but the time to live of the shadow key of
\* its game: no game document changes, no key appears or disappears, the
\* shadow key keeps its value and carries the given time (none for None);
\* it raises GameNotFound, without writing, exactly when its test finds no
\* game document.
C16_SetExpiryOnlyTtl ==
    [][\A p \in GameClients :
          /\ proc[p].pc = "se_exists" /\ proc'[p] # proc[p] =>
                /\ games' = games /\ shadow' = shadow
                /\ proc'[p].pc = "done" <=> games[proc[p].game_id] = NoKey
                /\ proc'[p].pc = "done" => proc'[p].exc = "GameNotFound"
          /\ proc[p].pc = "se_apply" /\ proc'[p] # proc[p] =>
                LET g == proc[p].game_id IN
                /\ games' = games
                /\ proc'[p].pc = "done" /\ proc'[p].exc = ""
                /\ \A h \in DOMAIN shadow : h # g => shadow'[h] = shadow[h]
                /\ shadow'[g] = NoKey <=> shadow[g] = NoKey
                /\ shadow[g] # NoKey =>
                      /\ shadow'[g][1].value = shadow[g][1].value
                      /\ shadow'[g][1].ttl = proc[p].extend_time]_vars

C16_Witness ==
    \E p \in GameClients :
        /\ Done(p) /\ proc[p].op = "set_expiry" /\ proc[p].exc = ""
        /\ proc[p].extend_time = MaxTtl
        /\ shadow[proc[p].game_id] # NoKey
        /\ shadow[proc[p].game_id][1].ttl = MaxTtl

\* C17: when delete returns neither the game document nor the shadow key of
\* its id is stored and nothing was raised; its two steps touch no other
\* key, and change nothing at all when the id is absent.
C17_DeleteIdempotent ==
    [][\A p \in GameClients :
          LET g == proc[p].game_id IN
          /\ proc[p].pc = "del_game" /\ proc'[p] # proc[p] =>
                /\ games'[g] = NoKey
                /\ \A h \in DOMAIN games : h # g => games'[h] = games[h]
                /\ shadow' = shadow
                /\ games[g] = NoKey => games' = games
          /\ proc[p].pc = "del_shadow" /\ proc'[p] # proc[p] =>
                /\ proc'[p].pc = "done" /\ proc'[p].exc = ""
                /\ games' = games /\ games'[g] = NoKey /\ shadow'[g] = NoKey
                /\ \A h \in DOMAIN shadow : h # g => shadow'[h] = shadow[h]
                /\ shadow[g] = NoKey => shadow' = shadow]_vars

C17_Witness ==
    \E p, q, r \in GameClients :
        /\ p # q
        /\ Done(r) /\ proc[r].op = "get" /\ proc[r].exc = ""
        /\ Done(p) /\ proc[p].op = "delete" /\ proc[p].exc = ""
        /\ Done(q) /\ proc[q].op = "delete" /\ proc[q].exc = ""
        /\ proc[p].game_id = proc[r].game_id /\ proc[q].game_id = proc[r].game_id
        /\ games[proc[r].game_id] = NoKey /\ shadow[proc[r].game_id] = NoKey

\* no other call has named game id g
Alone(ps, g) == \A r \in GameClients \ ps : proc[r].pc = "idle" \/ proc[r].game_id # g

C11_ExpiryDispatchedOnce ==
    /\ [][\A g \in DOMAIN handled :
             /\ handled'[g] # handled[g] =>
                   /\ handled'[g] = handled[g] + 1
                   /\ handled'[g] <= delivered[g]
                   /\ \A c \in CallbackNames :
                         invoked'[<<c, g>>] =
                             invoked[<<c, g>>] + (IF c \in Names(expire_callbacks) THEN 1 ELSE 0)
             /\ handled'[g] = handled[g] =>
                   \A c \in CallbackNames : invoked'[<<c, g>>] = invoked[<<c, g>>]]_vars
    /\ \A g \in StoreIds : \A n \in 1..MaxTtl :
          (delivered[g] >= n) ~> (handled[g] >= n)

C22_ReadyExactly ==
    [][\A p \in UserProcs :
          Returns(p) /\ proc[p].op = "check_users_are_ready" /\ proc[p].seen = users =>
              IF \E u \in Range(proc[p].user_ids) : users[u] = NoKey
              THEN proc'[p].exc = "UserNotFound"
              ELSE /\ proc'[p].exc = ""
                   /\ proc'[p].ret <=>
                         \A u \in Range(proc[p].user_ids) :
                             proc[p].game_id \in Range(users[u][1].active_games)]_vars

\* the number of times x occurs in the list s
RECURSIVE Count(_, _)
Count(s, x) ==
    IF s = <<>> THEN 0 ELSE (IF Head(s) = x THEN 1 ELSE 0) + Count(Tail(s), x)

\* C23: when add_notifiction returns for a user who has a record, and no
\* record changed during the call, the game is in that user's notifications
\* exactly once and nothing else of the record has changed.
C23_AddNotificationOnce ==
    [][\A p \in UserProcs :
          /\ Returns(p) /\ proc[p].op = "add_notifiction" /\ proc[p].seen = users
          /\ users[proc[p].user_id] # NoKey
          => /\ proc'[p].exc = ""
             /\ users'[proc[p].user_id] # NoKey
             /\ Count(users'[proc[p].user_id][1].notifications, proc[p].game_id) = 1
             /\ \E n \in {users[proc[p].user_id][1].notifications,
                          users[proc[p].user_id][1].notifications \o <<proc[p].game_id>>} :
                   users' = [users EXCEPT ![proc[p].user_id] =
                                Doc([users[proc[p].user_id][1] EXCEPT !.notifications = n])]]_vars

\* C24: when remove_notification returns for a user who has a record, and
\* no record changed during the call, it returns True exactly when the game
\* was in that user's notifications, the game is not in them afterwards, and
\* nothing else of any record has changed.
C24_RemoveNotification ==
    [][\A p \in UserProcs :
          /\ Returns(p) /\ proc[p].op = "remove_notification" /\ proc[p].seen = users
          /\ users[proc[p].user_id] # NoKey
          => LET u == proc[p].user_id
                 g == proc[p].game_id
                 old == users[u][1]
             IN  /\ proc'[p].exc = ""
                 /\ proc'[p].ret <=> g \in Range(old.notifications)
                 /\ users'[u] # NoKey
                 /\ g \notin Range(users'[u][1].notifications)
                 /\ users' = [users EXCEPT ![u] =
                                 Doc([old EXCEPT !.notifications = users'[u][1].notifications])]
                 /\ \A x \in Range(old.notifications) \ {g} :
                       Count(users'[u][1].notifications, x) = Count(old.notifications, x)]_vars

\* coroutine p takes a step of its own (not only its WATCH being touched)
Acts(p) == [proc' EXCEPT ![p].dirty = proc[p].dirty][p] # proc[p]

\* C25: a clear_game call changes a record only if the record holds the
\* game or this call has taken the game from that user before; and a
\* clear_game call that returns when another call with the same arguments
\* is over raises nothing and leaves no listed user holding the game.
C25_ClearGameRerun ==
    [][\A p \in UserProcs :
          proc[p].op = "clear_game" /\ Acts(p) =>
              /\ \A u \in UserIds :
                    users'[u] # users[u] =>
                        /\ users[u] # NoKey
                        /\ \/ proc[p].game_id \in Range(HeldGames(users[u][1]))
                           \/ u \in proc[p].removed_from
              /\ ( /\ Returns(p)
                   /\ \E q \in UserProcs \ {p} :
                         /\ Done(q) /\ proc[q].op = "clear_game"
                         /\ proc[q].input = proc[p].input )
                 => /\ proc'[p].exc = ""
                    /\ \A u \in Range(proc[p].user_ids) :
                          users'[u] # NoKey =>
                              proc[p].game_id \notin Range(HeldGames(users'[u][1]))]_vars

\* ------------------------------------------------- GameAdmin claims
\* C26: a step of the expiry handler GameAdmin.__game_expired for a game
\* whose document and shadow key are both gone changes nothing in the store
\* and raises nothing.
C26_ExpiredHandlerIdempotent ==
    [][\A p \in AdminProcs, g \in StoreIds :
          /\ Acts(p) /\ proc'[p].op = "__game_expired" /\ proc'[p].game_id = g
          /\ games[g] = NoKey /\ shadow[g] = NoKey
          => /\ games' = games /\ shadow' = shadow /\ users' = users
             /\ proc'[p].exc = ""]_vars

\* ------------------------------------------------- registry claims
\* coroutine p makes a call that returns in the same step
Called(p) == proc[p].pc = "idle" /\ proc'[p].pc = "done"

\* a remove_expire_handler call for a callback named name returns without
\* an exception in this step
Removes(name) ==
    \E p \in RegistryProcs :
        /\ Called(p) /\ proc'[p].op = "remove_expire_handler" /\ proc'[p].exc = ""
        /\ proc'[p].results[1].name = name

\* C27: a callback that is registered stays registered, the same function
\* under the same name, until remove_expire_handler is called for its name,
\* whatever is registered under that name in between; and a
\* remove_expire_handler call for a name that is not registered raises
\* KeyError and leaves the registry as it is.
C27_RegistryKeepsFirst ==
    [][/\ \A fn \in Range(expire_callbacks) :
             fn \in Range(expire_callbacks') \/ Removes(fn.name)
       /\ \A p \in RegistryProcs :
             /\ Called(p) /\ proc'[p].op = "remove_expire_handler"
             /\ proc'[p].results[1].name \notin Names(expire_callbacks)
             => /\ proc'[p].exc = "KeyError"
                /\ expire_callbacks' = expire_callbacks]_vars

\* remove_expire_handler has raised KeyError for a name while another
\* callback is registered
C27_Witness ==
    \E p \in RegistryProcs :
        /\ Done(p) /\ proc[p].op = "remove_expire_handler" /\ proc[p].exc = "KeyError"
        /\ expire_callbacks # <<>>
        /\ proc[p].results[1].name \notin Names(expire_callbacks)

\* C28: off the main instance every gated operation does nothing and
\* returns None: importing GameStatus raises nothing, no callback is
\* registered, notifications stay off, no listener exists and no expiry is
\* dispatched.
C28_NonMainDoesNothing ==
    ~main_instance =>
        /\ imported \in {"no", "yes"}
        /\ \A c \in Patterns : pubsub_callbacks[c] = ""
        /\ ~notify
        /\ pubsubs = <<>> /\ recreate = <<>> /\ pubsub_task = None
        /\ \A g \in GameIds : handled[g] = 0

\* no __recreate_pubsub_task coroutine is under way, and one that
\* add_pubsub_callback or remove_pubsub_callback awaited has returned
NoRecreate == \A r \in DOMAIN recreate : recreate[r].pc = "done"
ManualReturned ==
    \E r \in DOMAIN recreate :
        recreate[r].call \in {"add_pubsub_callback", "remove_pubsub_callback"}

\* the PubSub objects whose run() task exists and was not cancelled
Listeners ==
    {k \in DOMAIN pubsubs : pubsubs[k].running /\ ~pubsubs[k].cancelled /\ pubsubs[k].exc = ""}

\* C29: keyspace notifications are on once a callback is registered, and
\* once the last callback was removed they are off again and the listener
\* is stopped: no task runs and nothing is subscribed.
C29_NotificationsFollowCallbacks ==
    NoRecreate =>
        /\ (\E c \in Patterns : pubsub_callbacks[c] # "") => notify
        /\ (ManualReturned /\ \A c \in Patterns : pubsub_callbacks[c] = "")
               => /\ ~notify
                  /\ Listeners = {}
                  /\ pubsub_task = None

\* C30: once add_pubsub_callback or remove_pubsub_callback has returned,
\* every running listener is subscribed to exactly the registered patterns
\* with the registered callbacks, and a message it reads invokes the
\* callback registered for the channel.
C30_ListenerHasRegisteredPatterns ==
    [][NoRecreate /\ ManualReturned =>
          /\ \A k \in Listeners : pubsubs[k].patterns = pubsub_callbacks
          /\ \A k \in DOMAIN pubsubs :
                Len(pubsubs'[k].inbox) < Len(pubsubs[k].inbox)
                => /\ pubsub_callbacks[Head(pubsubs[k].inbox).channel] # ""
                   /\ pubsubs'[k].called[1]
                          = pubsub_callbacks[Head(pubsubs[k].inbox).channel]]_vars

\* ------------------------------------------------- dispatcher claims, continued
\* C31: an expiry event read by __expire_handler whose key is not a shadow
\* key, or whose data cannot be decoded, starts no expire callback and
\* leaves the listener task alive.
C31_OtherEventsDropped ==
    [][\A k \in DOMAIN pubsubs :
          /\ Len(pubsubs'[k].inbox) < Len(pubsubs[k].inbox)
          /\ pubsubs[k].patterns[Head(pubsubs[k].inbox).channel] = "__expire_handler"
          /\ ~IsShadowKey(Head(pubsubs[k].inbox).data)
          => /\ invoked' = invoked
             /\ pubsubs'[k].exc = ""]_vars

\* ------------------------------------------------- pipeline_watch claims, continued
\* C33: a call of a wrapped operation on a stored key whose own commit
\* meets no conflict runs its body exactly once and ends with the body's
\* outcome, never with WatchError, whatever conflicts other calls met.
C33_BudgetPerCall ==
    \A p \in RetryProcs :
        Done(p) /\ proc[p].op = "user_accepted" /\ proc[p].conflicts = 0
                /\ proc[p].exc # "GameNotFound"
        => proc[p].runs = 1 /\ proc[p].exc # "WatchError"

\* C34: the user_accepted call on game 1, which nothing else writes, has
\* the outcome it has when run alone, whatever happens on game 2: for a
\* pending user one body execution, no conflict, and the pending list
\* without that user as result.
C34_KeysIndependent ==
    Done(1) /\ proc[1].user_id \in Range(InitialGame.pending_users)
    => /\ proc[1].exc = ""
       /\ proc[1].runs = 1 /\ proc[1].conflicts = 0
       /\ proc[1].results =
             SelectSeq(InitialGame.pending_users, LAMBDA u : u # proc[1].user_id)

\* the user_accepted calls that have returned an empty list
ReturnedEmpty ==
    {p \in LastProcs : Succeeded(p) /\ proc[p].op = "user_accepted" /\ proc[p].results = <<>>}

\* C35: of the concurrent user_accepted calls on one game, none has
\* returned an empty list while a user is pending, and exactly one has once
\* the calls have removed the last pending user.
C35_OneCallStartsTheGame ==
    Cardinality(ReturnedEmpty) = IF games[1][1].pending_users = <<>> THEN 1 ELSE 0

\* the last pending users were removed by calls that ran concurrently: the
\* call that returned the empty list had met a conflict
C35_Witness ==
    /\ games[1][1].pending_users = <<>>
    /\ \A p \in LastProcs : Succeeded(p)
    /\ \E p \in ReturnedEmpty : proc[p].conflicts > 0

\* C36: at most one listener task is alive at any time: no two run() tasks
\* exist that were not cancelled and have not ended.
C36_OneListener == Cardinality(Listeners) <= 1

\* ------------------------------------------------- GameStatus claims, continued
\* C38: when set_expiry with a time to live returns without error, the
\* game has a shadow key that carries that time, also when the shadow key
\* it had before had lapsed.
C38_SetExpiryArmsTheGame ==
    [][\A p \in GameClients :
          /\ Returns(p) /\ proc'[p].op = "set_expiry" /\ proc'[p].exc = ""
          /\ Truthy(proc'[p].extend_time)
          => /\ shadow'[proc'[p].game_id] # NoKey
             /\ shadow'[proc'[p].game_id][1].ttl = proc'[p].extend_time]_vars

\* C32: the stored state of a game only goes from Pending (0) to Queued (1)
\* or In Progress (2), from Queued to Queued and from Queued to In
\* Progress; a game in progress never goes back, whatever the interleaving
\* of accept, start, promotion and delete.
C32_StateOnlyAdvances ==
    [][\A g \in DOMAIN games :
          games[g] # NoKey /\ games'[g] # NoKey
          /\ games'[g][1].state # games[g][1].state
          => <<games[g][1].state, games'[g][1].state>> \in {<<0, 1>>, <<0, 2>>, <<1, 2>>}]_vars

\* C37: when GameAdmin.delete_game(g) has completed, no user's active_games
\* or queued_games contains g, also when the game is deleted during its
\* start because a participant was at capacity.
C37_DeletedGameLeftNowhere ==
    [][\A p \in StartProcs :
          /\ At(p, "delete_game", "delete")
          /\ proc'[p] # proc[p]
          => \A u \in DOMAIN users :
                 users'[u] # NoKey => Top(proc[p]).game_id \notin Range(HeldGames(users'[u][1]))]_vars

\* the calls noted after the k-th one that are about game g
NotesAfter(p, k, g) ==
    {j \in DOMAIN proc[p].notes : j > k /\ proc[p].notes[j][2] = g}

\* C39: when join_game returns False for a participant during a start, that
\* user is notified once and the game is deleted once, and the start stops
\* there: no further participant is joined, neither the state nor the
\* expiry of the game is changed and the game module is not started.
C39_BlockedStartStops ==
    \A p \in StartProcs : \A k \in DOMAIN proc[p].notes :
        LET n == proc[p].notes IN
        n[k][1] = "join_game" /\ n[k][4] = FALSE
        => LET after == NotesAfter(p, k, n[k][2]) IN
           /\ \A j \in after : n[j][1] \in {"max_games", "delete_game", "GameStatus.delete"}
           /\ Cardinality({j \in after : n[j][1] = "max_games"}) <= 1
           /\ Cardinality({j \in after : n[j][1] = "delete_game"}) <= 1
           /\ Done(p) /\ proc[p].exc = ""
              => /\ \E j \in after : n[j] = <<"max_games", n[k][2], n[k][3]>>
                 /\ \E j \in after : n[j] = <<"GameStatus.delete", n[k][2]>>
====
